---- MODULE Spec2Model ----
(***************************************************************************)
(* Model of the permission aggregation and CSV projection of               *)
(* tableau_client.py (TableauCloudClient.get_project_permissions and       *)
(* TableauCloudClient.export_permissions_to_csv) and of the export run of  *)
(* gui_app.py (MainWindow.export_permissions and its worker thread), of    *)
(* the session of the client (sign_in, _get_headers, sign_out) and of the  *)
(* lazy loading of the content tree (load_content_for_project).            *)
(*                                                                         *)
(* Python dicts are modelled as functions over a finite set of string      *)
(* keys; an insertion-ordered dict of grantees is a sequence of keys plus  *)
(* a function over them.  Capability names are real strings, so that the   *)
(* f"workbook_{cap_name}" namespacing is string concatenation.             *)
(***************************************************************************)
EXTENDS Integers, Sequences, FiniteSets, TLC

VARIABLES
    server,                          \* rules the server returns per endpoint
    content_permissions,             \* contentPermissions of the project
    grantee_permissions,             \* local dict of get_project_permissions
    grantees_with_template,          \* local set of get_project_permissions
    grantees_with_virtualconnection, \* local set of get_project_permissions
    merged_permissions,              \* value returned by the last call
    pc,                              \* "idle" | "merged" | "raised"
    memo,                            \* history: input and result of the first call
    requests,                        \* the requests sent by the last call
    permissions,                     \* rows given to export_permissions_to_csv
    csv_file,                        \* what export_permissions_to_csv wrote
    selected_items,                  \* get_selected_items() of the export run
    site,                            \* what the server answers during the run
    include_group_members,           \* the check box of the group export
    export_button,                   \* "normal" | "disabled"
    worker,                          \* position of the export thread
    total_files,                     \* local of export()
    all_perms,                       \* rows collected per content kind
    files,                           \* the calls of export_permissions_to_csv
    warnings,                        \* resources skipped with a WARNING line
    message,                         \* the message box shown last
    folder_path,                     \* answer of the last folder dialog
    status_label,                    \* text of the status label
    progress,                        \* "hidden" | "running" | "stopped"
    threads,                         \* number of export threads that run
    after_queue,                     \* callbacks scheduled with root.after
    group_file,                      \* what export_group_members wrote
    auth_token,                      \* TableauCloudClient.auth_token
    site_id,                         \* TableauCloudClient.site_id
    user_id,                         \* TableauCloudClient.user_id
    sent,                            \* the requests the client has sent
    outcome,                         \* the last operation and what it raised
    content_types,                   \* the content types that are checked
    node_open,                       \* whether the project node is expanded
    node_children,                   \* tags of the children of the node
    content_loaded,                  \* proj_id in self.content_loaded
    loaders,                         \* the load threads that were started
    tree_after,                      \* update_tree callbacks to run
    raced                            \* history: selection changed during a load

export_vars == <<selected_items, site, include_group_members, export_button,
                 worker, total_files, all_perms, files, warnings, message,
                 folder_path, status_label, progress, threads, after_queue,
                 group_file>>

vars == <<server, content_permissions, grantee_permissions,
          grantees_with_template, grantees_with_virtualconnection,
          merged_permissions, pc, memo, requests, permissions, csv_file,
          selected_items, site, include_group_members, export_button,
          worker, total_files, all_perms, files, warnings, message,
          folder_path, status_label, progress, threads, after_queue,
          group_file, auth_token, site_id, user_id, sent, outcome,
          content_types, node_open, node_children, content_loaded, loaders,
          tree_after, raced>>

client_vars == <<auth_token, site_id, user_id, sent, outcome>>

tree_vars == <<content_types, node_open, node_children, content_loaded,
               loaders, tree_after, raced>>

merge_vars == <<server, content_permissions, grantee_permissions,
                grantees_with_template, grantees_with_virtualconnection,
                merged_permissions, pc, memo, requests>>

-----------------------------------------------------------------------------
(* Bounds of the explored inputs *)

MaxRules == 2
MaxRows == 2
MaxSent == 3
MaxLoads == 2

Grantees == {<<"user", "id1">>, <<"group", "id1">>}

RawCaps ==
    { [name |-> "InheritedProjectLeader", mode |-> "Allow"],
      [name |-> "Read", mode |-> "Allow"],
      [name |-> "Read", mode |-> "Deny"],
      [name |-> "Write", mode |-> "Deny"] }

ProjectEndpoint == "project"

Endpoints == <<"project", "workbooks", "datasources", "flows",
               "virtualconnections", "lenses", "virtual-connections",
               "databases", "tables">>

EndpointSet == {Endpoints[i] : i \in 1..Len(Endpoints)}

-----------------------------------------------------------------------------
(* Dict helpers *)

EmptyDict == <<>>

\* d.update(e) / repeated d[k] = v : the right operand wins
DictUpdate(d, e) ==
    [k \in (DOMAIN d) \cup (DOMAIN e) |-> IF k \in DOMAIN e THEN e[k] ELSE d[k]]

DictSet(d, k, v) ==
    [x \in (DOMAIN d) \cup {k} |-> IF x = k THEN v ELSE d[x]]

AllAllow(names) == [n \in names |-> "Allow"]

-----------------------------------------------------------------------------
(* Template tables *)

project_templates ==
    [t \in {"InheritedProjectLeader"} |-> AllAllow({"Read", "Write"})]

workbook_templates ==
    [t \in {"InheritedProjectLeader"} |->
        AllAllow({"workbook_Read", "workbook_Filter", "workbook_ViewComments",
                  "workbook_AddComment", "workbook_ExportImage", "workbook_ExportData",
                  "workbook_ShareView", "workbook_ViewUnderlyingData",
                  "workbook_WebAuthoring", "workbook_RunExplainData",
                  "workbook_ExportXml", "workbook_Write", "workbook_ChangeHierarchy",
                  "workbook_Delete", "workbook_ChangePermissions",
                  "workbook_ExtractRefresh"})]

datasource_templates ==
    [t \in {"InheritedProjectLeader"} |->
        AllAllow({"datasource_Read", "datasource_Connect", "datasource_ExportXml",
                  "datasource_Write", "datasource_SaveAs",
                  "datasource_VizqlDataApiAccess", "datasource_PulseMetricDefine",
                  "datasource_ChangeHierarchy", "datasource_Delete",
                  "datasource_ChangePermissions", "datasource_ExtractRefresh"})]

flow_templates ==
    [t \in {"InheritedProjectLeader"} |->
        AllAllow({"flow_Read", "flow_ExportXml", "flow_Execute", "flow_Write",
                  "flow_WebAuthoringForFlows", "flow_ChangeHierarchy",
                  "flow_Delete", "flow_ChangePermissions"})]

\* variant: the template grants virtualconnection_Write like the others
virtualconnection_templates_AllAllow ==
    [t \in {"InheritedProjectLeader"} |->
        AllAllow({"virtualconnection_Read", "virtualconnection_Connect",
                  "virtualconnection_Write", "virtualconnection_ChangeHierarchy",
                  "virtualconnection_Delete", "virtualconnection_ChangePermissions"})]


virtualconnection_templates ==
    [t \in {"InheritedProjectLeader"} |->
        [n \in {"virtualconnection_Read", "virtualconnection_Connect",
                "virtualconnection_Write", "virtualconnection_ChangeHierarchy",
                "virtualconnection_Delete", "virtualconnection_ChangePermissions"} |->
            IF n = "virtualconnection_Write" THEN "No API Endpoint" ELSE "Allow"]]

database_templates ==
    [t \in {"InheritedProjectLeader"} |->
        AllAllow({"database_Read", "database_Write", "database_ChangeHierarchy",
                  "database_ChangePermissions"})]

table_templates ==
    [t \in {"InheritedProjectLeader"} |->
        AllAllow({"table_Read", "table_Write", "table_ChangeHierarchy",
                  "table_ChangePermissions"})]

\* the default-permission sources in the order they are merged
NestedKinds == <<"workbook", "datasource", "flow", "virtualconnection",
                 "database", "table">>

NestedKindSet == {NestedKinds[i] : i \in 1..Len(NestedKinds)}

TemplatesOf(kind) ==
    CASE kind = "workbook" -> workbook_templates
      [] kind = "datasource" -> datasource_templates
      [] kind = "flow" -> flow_templates
      [] kind = "virtualconnection" -> virtualconnection_templates
      [] kind = "database" -> database_templates
      [] kind = "table" -> table_templates

\* variant: the prefix is joined with a dot
Namespaced_Dotted(kind, cap_name) == kind \o "." \o cap_name

\* f"{kind}_{cap_name}"
Namespaced(kind, cap_name) == kind \o "_" \o cap_name

-----------------------------------------------------------------------------
(* Capability catalog of export_permissions_to_csv *)

capability_order ==
    [workbook |->
        <<"Read", "Filter", "ViewComments", "AddComment", "ExportImage",
          "ExportData", "ShareView", "ViewUnderlyingData", "WebAuthoring",
          "RunExplainData", "ExportXml", "Write", "ChangeHierarchy", "Delete",
          "ChangePermissions", "ExtractRefresh">>,
     datasource |->
        <<"Read", "Connect", "ExportXml", "Write", "SaveAs",
          "VizqlDataApiAccess", "PulseMetricDefine", "ChangeHierarchy",
          "Delete", "ChangePermissions", "ExtractRefresh">>,
     project |->
        <<"Read", "Write",
          "workbook_Read", "workbook_Filter", "workbook_ViewComments",
          "workbook_AddComment", "workbook_ExportImage", "workbook_ExportData",
          "workbook_ShareView", "workbook_ViewUnderlyingData",
          "workbook_WebAuthoring", "workbook_RunExplainData",
          "workbook_ExportXml", "workbook_Write", "workbook_ChangeHierarchy",
          "workbook_Delete", "workbook_ChangePermissions",
          "workbook_ExtractRefresh",
          "datasource_Read", "datasource_Connect", "datasource_ExportXml",
          "datasource_Write", "datasource_SaveAs",
          "datasource_VizqlDataApiAccess", "datasource_PulseMetricDefine",
          "datasource_ChangeHierarchy", "datasource_Delete",
          "datasource_ChangePermissions", "datasource_ExtractRefresh",
          "flow_Read", "flow_ExportXml", "flow_Execute", "flow_Write",
          "flow_WebAuthoringForFlows", "flow_ChangeHierarchy", "flow_Delete",
          "flow_ChangePermissions",
          "virtualconnection_Read", "virtualconnection_Connect",
          "virtualconnection_Write", "virtualconnection_ChangeHierarchy",
          "virtualconnection_Delete", "virtualconnection_ChangePermissions",
          "database_Read", "database_Write", "database_ChangeHierarchy",
          "database_ChangePermissions",
          "table_Read", "table_Write", "table_ChangeHierarchy",
          "table_ChangePermissions">>,
     view |->
        <<"Read", "Filter", "ViewComments", "AddComment", "ExportImage",
          "ExportData", "ShareView", "ViewUnderlyingData", "WebAuthoring",
          "Delete", "ChangePermissions">>,
     flow |->
        <<"Read", "ExportXml", "Execute", "Write", "WebAuthoringForFlows",
          "ChangeHierarchy", "Delete", "ChangePermissions">>]

SeqRange(q) == {q[i] : i \in 1..Len(q)}

-----------------------------------------------------------------------------
(* Fetching *)

\* variant: the lenses path is tried first
vc_endpoints_LensesFirst == <<"lenses", "virtualconnections", "virtual-connections">>

\* variant: the answer is parsed whether or not the request succeeded
get_default_permissions_Unguarded(srv, content_type) == srv[content_type].rules

\* _get_default_permissions: a failing request yields the empty list
get_default_permissions(srv, content_type) ==
    IF srv[content_type].ok THEN srv[content_type].rules ELSE <<>>

vc_endpoints == <<"virtualconnections", "lenses", "virtual-connections">>

\* for vc_endpoint in [...]: perms = _get_default_permissions(..); if perms: break
RECURSIVE VirtualConnectionPerms(_, _)
VirtualConnectionPerms(srv, i) ==
    LET perms == get_default_permissions(srv, vc_endpoints[i])
    IN  IF perms # <<>> \/ i = Len(vc_endpoints)
        THEN perms
        ELSE VirtualConnectionPerms(srv, i + 1)

\* the paths requested by the loop over the virtual-connection endpoints,
\* from endpoint number i on
RECURSIVE VirtualConnectionRequests(_, _)
VirtualConnectionRequests(srv, i) ==
    LET perms == get_default_permissions(srv, vc_endpoints[i])
    IN  <<vc_endpoints[i]>> \o
        (IF perms # <<>> \/ i = Len(vc_endpoints)
         THEN <<>>
         ELSE VirtualConnectionRequests(srv, i + 1))

\* the permission requests of one call of get_project_permissions, in the
\* order they are sent; raise_for_status of the project-level request ends
\* the call
RequestsOf(srv) ==
    IF ~srv[ProjectEndpoint].ok
    THEN <<ProjectEndpoint>>
    ELSE <<ProjectEndpoint, "workbooks", "datasources", "flows">>
         \o VirtualConnectionRequests(srv, 1)
         \o <<"databases", "tables">>

\* the rule list merged for one nested content-kind
DefaultPerms(srv, kind) ==
    CASE kind = "workbook" -> get_default_permissions(srv, "workbooks")
      [] kind = "datasource" -> get_default_permissions(srv, "datasources")
      [] kind = "flow" -> get_default_permissions(srv, "flows")
      [] kind = "virtualconnection" -> VirtualConnectionPerms(srv, 1)
      [] kind = "database" -> get_default_permissions(srv, "databases")
      [] kind = "table" -> get_default_permissions(srv, "tables")

-----------------------------------------------------------------------------
(* Merge: the accumulator is [gp, gwt, gwvc] =                            *)
(* grantee_permissions, grantees_with_template,                           *)
(* grantees_with_virtualconnection                                        *)

EmptyGranteePermissions == [keys |-> <<>>, caps |-> <<>>]

\* variant: the locals of the earlier call are kept
InitialMergeState_Kept(prev) == prev

\* the three locals as get_project_permissions creates them; prev is what
\* an earlier call left behind and is not used
InitialMergeState(prev) ==
    [gp |-> EmptyGranteePermissions, gwt |-> {}, gwvc |-> {}]

GranteeKey(perm) == <<perm.grantee_type, perm.grantee_id>>

\* variant: a record is created for every rule
EnsureRecord_Always(st, key) ==
    [st EXCEPT !.gp = [keys |-> Append(st.gp.keys, key),
                       caps |-> DictSet(st.gp.caps, key, EmptyDict)]]

\* if grantee_key not in grantee_permissions: grantee_permissions[key] = {...}
EnsureRecord(st, key) ==
    IF key \in DOMAIN st.gp.caps
    THEN st
    ELSE [st EXCEPT !.gp = [keys |-> Append(st.gp.keys, key),
                            caps |-> DictSet(st.gp.caps, key, EmptyDict)]]

\* variant: the expansion leaves out the table template
ProjectExpansion_NoTables(cap_name) ==
    DictUpdate(DictUpdate(DictUpdate(DictUpdate(DictUpdate(
        project_templates[cap_name],
        workbook_templates[cap_name]),
        datasource_templates[cap_name]),
        flow_templates[cap_name]),
        virtualconnection_templates[cap_name]),
        database_templates[cap_name])

\* the expansion written for a template met in the project-level source
ProjectExpansion(cap_name) ==
    DictUpdate(DictUpdate(DictUpdate(DictUpdate(DictUpdate(DictUpdate(
        project_templates[cap_name],
        workbook_templates[cap_name]),
        datasource_templates[cap_name]),
        flow_templates[cap_name]),
        virtualconnection_templates[cap_name]),
        database_templates[cap_name]),
        table_templates[cap_name])

\* body of "for cap in perm['capabilities']" of the project-level loop
ProjectCapability(st, key, cap) ==
    IF cap.name \in DOMAIN project_templates
    THEN [st EXCEPT !.gwt = @ \cup {key},
                    !.gp.caps[key] = DictUpdate(@, ProjectExpansion(cap.name))]
    ELSE [st EXCEPT !.gp.caps[key] = DictSet(@, cap.name, cap.mode)]

RECURSIVE ProjectCapabilities(_, _, _, _)
ProjectCapabilities(st, key, caps, i) ==
    IF i > Len(caps) THEN st
    ELSE ProjectCapabilities(ProjectCapability(st, key, caps[i]), key, caps, i + 1)

\* for perm in project_perms
RECURSIVE ProjectLoop(_, _, _)
ProjectLoop(st, perms, i) ==
    IF i > Len(perms) THEN st
    ELSE LET key == GranteeKey(perms[i])
         IN  ProjectLoop(ProjectCapabilities(EnsureRecord(st, key), key,
                                             perms[i].capabilities, 1),
                         perms, i + 1)

\* variant: a raw capability is stored without its content-kind prefix
DefaultCapability_NoNamespace(st, key, cap, kind) ==
    IF cap.name \in DOMAIN TemplatesOf(kind)
    THEN [st EXCEPT !.gp.caps[key] = DictUpdate(@, TemplatesOf(kind)[cap.name])]
    ELSE [st EXCEPT !.gp.caps[key] = DictSet(@, cap.name, cap.mode)]

\* body of "for cap in perm['capabilities']" of a default-permission loop
DefaultCapability(st, key, cap, kind) ==
    IF cap.name \in DOMAIN TemplatesOf(kind)
    THEN [st EXCEPT !.gp.caps[key] = DictUpdate(@, TemplatesOf(kind)[cap.name])]
    ELSE [st EXCEPT !.gp.caps[key] =
                        DictSet(@, Namespaced(kind, cap.name), cap.mode)]

RECURSIVE DefaultCapabilities(_, _, _, _, _)
DefaultCapabilities(st, key, caps, kind, i) ==
    IF i > Len(caps) THEN st
    ELSE DefaultCapabilities(DefaultCapability(st, key, caps[i], kind),
                             key, caps, kind, i + 1)

\* variant: a rule is never skipped
SkipRule_Never(st, key) == FALSE

\* whether a rule of a default-permission source is skipped
SkipRule(st, key) == key \in st.gwt

\* body of "for perm in <kind>_perms"
DefaultRule(st, perm, kind) ==
    LET key == GranteeKey(perm)
        st1 == IF kind = "virtualconnection"
               THEN [st EXCEPT !.gwvc = @ \cup {key}]
               ELSE st
    IN  IF SkipRule(st1, key)
        THEN st1
        ELSE DefaultCapabilities(EnsureRecord(st1, key), key,
                                 perm.capabilities, kind, 1)

RECURSIVE DefaultLoop(_, _, _, _)
DefaultLoop(st, perms, kind, i) ==
    IF i > Len(perms) THEN st
    ELSE DefaultLoop(DefaultRule(st, perms[i], kind), perms, kind, i + 1)

\* the six default-permission loops in source order
RECURSIVE DefaultLoops(_, _, _)
DefaultLoops(st, srv, k) ==
    IF k > Len(NestedKinds) THEN st
    ELSE DefaultLoops(DefaultLoop(st, DefaultPerms(srv, NestedKinds[k]),
                                  NestedKinds[k], 1),
                      srv, k + 1)

\* cap.startswith('virtualconnection_'), over the names the model can build
BaseNames ==
    {c.name : c \in RawCaps} \cup
    {"Connect", "ChangeHierarchy", "Delete", "ChangePermissions"}

StartsWithVirtualConnection(cap) ==
    cap \in {Namespaced("virtualconnection", b) : b \in BaseNames}

\* variant: the virtualconnection_Write entry is never added
EnsureVirtualConnectionWrite_Never(st, key) == st

\* the virtualconnection_Write rule of the conversion loop
EnsureVirtualConnectionWrite(st, key) ==
    LET caps == st.gp.caps[key]
        has_vc_caps == \E cap \in DOMAIN caps : StartsWithVirtualConnection(cap)
    IN  IF (key \in st.gwvc \/ has_vc_caps)
           /\ "virtualconnection_Write" \notin DOMAIN caps
        THEN [st EXCEPT !.gp.caps[key] =
                            DictSet(@, "virtualconnection_Write", "No API Endpoint")]
        ELSE st

RECURSIVE ConvertLoop(_, _)
ConvertLoop(st, i) ==
    IF i > Len(st.gp.keys) THEN st
    ELSE ConvertLoop(EnsureVirtualConnectionWrite(st, st.gp.keys[i]), i + 1)

\* state of the three locals after the seven source loops
PreConvertState(srv, prev) ==
    DefaultLoops(ProjectLoop(InitialMergeState(prev),
                             srv[ProjectEndpoint].rules, 1),
                 srv, 1)

\* state of the three locals when get_project_permissions returns
MergeState(srv, prev) == ConvertLoop(PreConvertState(srv, prev), 1)

\* merged_permissions as returned; the capability list of an entry is kept
\* as the name -> mode mapping it was built from
MergedPermissions(st, cp) ==
    [i \in 1..Len(st.gp.keys) |->
        [grantee_type |-> st.gp.keys[i][1],
         grantee_id |-> st.gp.keys[i][2],
         asset_permissions |-> cp,
         capabilities |-> st.gp.caps[st.gp.keys[i]]]]

-----------------------------------------------------------------------------
(* export_permissions_to_csv *)

fixed_fields ==
    <<"content_type", "content_id", "content_name", "workbook_name",
      "project_name", "parent_project_id", "asset_permissions",
      "grantee_type", "grantee_id", "grantee_name">>

\* all_fields: every key of every row
all_fields(perms) == UNION {DOMAIN perms[i] : i \in 1..Len(perms)}

\* all_capabilities_in_data before the duplicates are removed
CapabilitiesInData(perms) == all_fields(perms) \ SeqRange(fixed_fields)

\* if keep in caps and drop in caps: caps.discard(drop)
DiscardIfBoth(caps, keep, drop) ==
    IF keep \in caps /\ drop \in caps THEN caps \ {drop} ELSE caps

\* the "Remove duplicates" block
RemoveDuplicates(caps) ==
    DiscardIfBoth(
    DiscardIfBoth(
    DiscardIfBoth(
    DiscardIfBoth(
    DiscardIfBoth(caps, "ExtractRefresh", "CreateRefreshMetrics"),
        "VizqlDataApiAccess", "InheritedProjectLeader"),
        "workbook_ExtractRefresh", "workbook_CreateRefreshMetrics"),
        "datasource_ExtractRefresh", "datasource_CreateRefreshMetrics"),
        "datasource_VizqlDataApiAccess", "datasource_InheritedProjectLeader")

all_capabilities_in_data(perms) == RemoveDuplicates(CapabilitiesInData(perms))

\* perm.get('content_type', 'workbook')
ContentTypeOf(perm) ==
    IF "content_type" \in DOMAIN perm THEN perm["content_type"] ELSE "workbook"

content_types_in_data(perms) == {ContentTypeOf(perms[i]) : i \in 1..Len(perms)}

\* the values content_type can take: list(a_set)[0] is any element of a set
\* of several strings, the iteration order of a set of strings being that of
\* their per-process hashes
DetectedContentTypes(perms) ==
    IF Cardinality(content_types_in_data(perms)) = 1
    THEN content_types_in_data(perms)
    ELSE IF "workbook" \in content_types_in_data(perms)
         THEN {"workbook"}
         ELSE content_types_in_data(perms)

\* capability_order.get(content_type, [])
ordered_capabilities(content_type) ==
    IF content_type \in DOMAIN capability_order
    THEN capability_order[content_type]
    ELSE <<>>

\* the names that can occur outside the predefined orders, in the order
\* sorted() gives them (code points: upper case before lower case)
AlphabeticalOrder ==
    <<"CreateRefreshMetrics", "ExtractRefresh", "InheritedProjectLeader",
      "VizqlDataApiAccess", "virtualconnection_Write",
      "workbook_CreateRefreshMetrics", "workbook_ExtractRefresh">>

\* variant: the remaining names in descending order
Sorted_Descending(names) ==
    LET In(n) == n \in names
        asc == SelectSeq(AlphabeticalOrder, In)
    IN  [i \in 1..Len(asc) |-> asc[Len(asc) + 1 - i]]

\* sorted(names)
Sorted(names) ==
    LET In(n) == n \in names IN SelectSeq(AlphabeticalOrder, In)

\* variant: only the capabilities some row uses become columns
sorted_capabilities_OnlyUsed(content_type, data_caps) ==
    LET Used(n) == n \in data_caps
    IN  SelectSeq(ordered_capabilities(content_type), Used)
        \o Sorted(data_caps \ SeqRange(ordered_capabilities(content_type)))

\* variant: every name of the data is appended to the predefined order
sorted_capabilities_AllData(content_type, data_caps) ==
    ordered_capabilities(content_type) \o Sorted(data_caps)

\* sorted_capabilities: the predefined order, then the remaining names sorted
sorted_capabilities(content_type, data_caps) ==
    LET all_capabilities ==
            SeqRange(ordered_capabilities(content_type)) \cup data_caps
    IN  ordered_capabilities(content_type)
        \o Sorted(all_capabilities \ SeqRange(ordered_capabilities(content_type)))

\* variant: every fixed field is a column
fieldnames_All(perms) == fixed_fields

\* fieldnames = [f for f in fixed_fields if f in all_fields]
fieldnames(perms) ==
    LET In(f) == f \in all_fields(perms) IN SelectSeq(fixed_fields, In)

\* perm.get(key, '')
Get(perm, key) == IF key \in DOMAIN perm THEN perm[key] ELSE ""

\* variant: an absent capability is always written as "No setting"
CellValue_NoSpecialCase(perm, cap) ==
    IF Get(perm, cap) = "" THEN "No setting" ELSE Get(perm, cap)

\* the value written in the column cap of the row perm
CellValue(perm, cap) ==
    LET value == Get(perm, cap)
    IN  IF cap = "virtualconnection_Write" /\ value = ""
        THEN "No API Endpoint"
        ELSE IF value = "" THEN "No setting" ELSE value

\* the row written for perm
CsvRow(perm, fields, caps) ==
    [i \in 1..Len(fields) |-> Get(perm, fields[i])]
    \o [i \in 1..Len(caps) |-> CellValue(perm, caps[i])]

\* API to GUI name mapping (common)
api_to_gui_name_common ==
    [Read |-> "View",
     ExportImage |-> "Download Image/PDF",
     ExportData |-> "Download Summary Data",
     ShareView |-> "Share Customised",
     ViewUnderlyingData |-> "Download Full Data",
     WebAuthoring |-> "Web Edit",
     Write |-> "Overwrite",
     ChangeHierarchy |-> "Move",
     ChangePermissions |-> "Set Permissions",
     CreateRefreshMetrics |-> "Extract Refresh",
     ExtractRefresh |-> "Extract Refresh",
     SaveAs |-> "Save As",
     InheritedProjectLeader |-> "Publish",
     VizqlDataApiAccess |-> "API Access",
     PulseMetricDefine |-> "Create Metric Definitions",
     Connect |-> "Connect",
     Filter |-> "Filter",
     ViewComments |-> "View Comments",
     AddComment |-> "Add Comments",
     RunExplainData |-> "Run Explain Data",
     Delete |-> "Delete",
     ProjectLeader |-> "Project Leader",
     Execute |-> "Run Flow",
     WebAuthoringForFlows |-> "Web Edit",
     CreateVirtualConnection |-> "Publish",
     CreateDatabase |-> "Publish",
     CreateTable |-> "Publish"]

\* content type specific mappings
api_to_gui_name_by_type ==
    [workbook |-> [ExportXml |-> "Download/Save a Copy"],
     datasource |-> [ExportXml |-> "Download Data Source"],
     view |-> [ExportXml |-> "Download/Save a Copy"],
     flow |-> [ExportXml |-> "Download Flow"],
     project |-> [Write |-> "Publish"]]

\* the name after the namespace prefix, over the names the model can build
HeaderBaseNames ==
    DOMAIN api_to_gui_name_common \cup {"ExportXml"} \cup BaseNames

\* the names for which cap.startswith(kind + '_') holds
PrefixedNames ==
    [kind \in SeqRange(NestedKinds) |->
        {Namespaced(kind, b) : b \in HeaderBaseNames}]

\* cap.replace(kind + '_', '')
base_cap ==
    [cap \in UNION {PrefixedNames[kind] : kind \in SeqRange(NestedKinds)} |->
        CHOOSE b \in HeaderBaseNames :
            \E kind \in SeqRange(NestedKinds) : cap = Namespaced(kind, b)]

\* the common display name of an api name; "" stands for None
CommonGuiName(cap) ==
    IF cap \in DOMAIN api_to_gui_name_common
    THEN api_to_gui_name_common[cap]
    ELSE ""

\* variant: the common display name goes before the one of the content type
GuiName_CommonFirst(content_type, cap) ==
    IF cap \in DOMAIN api_to_gui_name_common
    THEN api_to_gui_name_common[cap]
    ELSE IF content_type \in DOMAIN api_to_gui_name_by_type
            /\ cap \in DOMAIN api_to_gui_name_by_type[content_type]
         THEN api_to_gui_name_by_type[content_type][cap]
         ELSE ""

\* gui_name: the display name of the content type, else the common one
GuiName(content_type, cap) ==
    IF content_type \in DOMAIN api_to_gui_name_by_type
       /\ cap \in DOMAIN api_to_gui_name_by_type[content_type]
    THEN api_to_gui_name_by_type[content_type][cap]
    ELSE CommonGuiName(cap)

\* f"{tab} Tab - {gui_name}(API Endpoints:{base})", f"{tab} Tab - {base}"
\* when there is no display name
TabHeader(tab, gui_name, base) ==
    IF gui_name # ""
    THEN tab \o " Tab - " \o gui_name \o "(API Endpoints:" \o base \o ")"
    ELSE tab \o " Tab - " \o base

\* the header of a capability column of a project batch
ProjectDisplayHeader(cap) ==
    IF cap \in PrefixedNames["workbook"]
    THEN TabHeader("Workbooks", GuiName("workbook", base_cap[cap]), base_cap[cap])
    ELSE IF cap \in PrefixedNames["datasource"]
    THEN TabHeader("Data Sources", GuiName("datasource", base_cap[cap]),
                   base_cap[cap])
    ELSE IF cap \in PrefixedNames["flow"]
    THEN TabHeader("Flows", GuiName("flow", base_cap[cap]), base_cap[cap])
    ELSE IF cap \in PrefixedNames["virtualconnection"]
    THEN IF base_cap[cap] = "Write"
         THEN "Virtual Connections Tab - Overwrite(API Endpoints:No API Endpoints)"
         ELSE TabHeader("Virtual Connections", CommonGuiName(base_cap[cap]),
                        base_cap[cap])
    ELSE IF cap \in PrefixedNames["database"]
    THEN TabHeader("Databases", CommonGuiName(base_cap[cap]), base_cap[cap])
    ELSE IF cap \in PrefixedNames["table"]
    THEN TabHeader("Tables", CommonGuiName(base_cap[cap]), base_cap[cap])
    ELSE TabHeader("Projects", GuiName("project", cap), cap)

\* the header of the column of capability cap
DisplayHeader(content_type, cap) ==
    IF content_type = "project"
    THEN ProjectDisplayHeader(cap)
    ELSE IF GuiName(content_type, cap) # ""
         THEN GuiName(content_type, cap) \o "(API Endpoints:" \o cap \o ")"
         ELSE cap

\* the headers of the predefined columns, resolved once
CatalogHeaders ==
    [content_type \in DOMAIN capability_order |->
        [cap \in SeqRange(capability_order[content_type]) |->
            DisplayHeader(content_type, cap)]]

\* display_headers
display_headers(content_type, caps) ==
    [i \in 1..Len(caps) |->
        IF content_type \in DOMAIN CatalogHeaders
           /\ caps[i] \in DOMAIN CatalogHeaders[content_type]
        THEN CatalogHeaders[content_type][caps[i]]
        ELSE DisplayHeader(content_type, caps[i])]

NoFile ==
    [written |-> FALSE, content_type |-> "", fieldnames |-> <<>>,
     capabilities |-> <<>>, display_headers |-> <<>>, rows |-> <<>>]

\* the file written when the detection yields content_type
WrittenFile(perms, content_type) ==
    LET caps == sorted_capabilities(content_type, all_capabilities_in_data(perms))
    IN  [written |-> TRUE,
         content_type |-> content_type,
         fieldnames |-> fieldnames(perms),
         capabilities |-> caps,
         display_headers |-> display_headers(content_type, caps),
         rows |-> [i \in 1..Len(perms) |-> CsvRow(perms[i], fieldnames(perms), caps)]]

ExportPermissionsToCsv ==
    /\ IF permissions = <<>>
       THEN UNCHANGED csv_file
       ELSE \E content_type \in DetectedContentTypes(permissions) :
                csv_file' = WrittenFile(permissions, content_type)
    /\ UNCHANGED permissions
    /\ UNCHANGED merge_vars
    /\ UNCHANGED <<export_vars, client_vars, tree_vars>>

\* the rows of the explored batches
\* the content kinds of the explored rows; "lens" has no entry in
\* capability_order
RowContentTypes == {"workbook", "datasource", "project", "lens"}

RowCapNames == SeqRange(AlphabeticalOrder)

RowModes == {"Allow", "Deny"}

\* the capabilities of an explored row: none or one
RowCapDicts ==
    {EmptyDict} \cup UNION {[{n} -> RowModes] : n \in RowCapNames}

BatchRows ==
    {DictUpdate([content_type |-> ct, content_id |-> "c1",
                 grantee_name |-> "Analysts"], caps) :
         ct \in RowContentTypes, caps \in RowCapDicts}

\* the identity keys of the explored rows of the second batch universe: the
\* placeholder row, the row of a workbook, of a view and of a project as
\* export_permissions builds them, and rows of other callers without
\* content_type or with parent_project_id
RowShapes ==
    {[kind |-> "workbook",
      keys |-> {"content_type", "content_id", "content_name", "grantee_name"}],
     [kind |-> "workbook",
      keys |-> {"content_type", "content_id", "content_name", "grantee_type",
                "grantee_id", "grantee_name"}],
     [kind |-> "view",
      keys |-> {"content_type", "content_id", "content_name", "workbook_name",
                "grantee_type", "grantee_id", "grantee_name"}],
     [kind |-> "project",
      keys |-> {"content_type", "content_id", "content_name", "project_name",
                "asset_permissions", "grantee_type", "grantee_id",
                "grantee_name"}],
     [kind |-> "project",
      keys |-> {"content_type", "content_id", "content_name", "project_name",
                "parent_project_id", "asset_permissions", "grantee_type",
                "grantee_id", "grantee_name"}],
     [kind |-> "", keys |-> {"grantee_name"}]}

\* the value a row of the shape has under the identity key
ShapeValue(shape, key) ==
    CASE key = "content_type" -> shape.kind
      [] key = "asset_permissions" -> "LockedToProject"
      [] key = "grantee_name" ->
            IF "grantee_id" \in shape.keys THEN "Analysts"
            ELSE "No permissions set"
      [] OTHER -> key \o "1"

ShapeCapDicts == {EmptyDict, [Read |-> "Allow"]}

ShapedRows ==
    {DictUpdate([k \in shape.keys |-> ShapeValue(shape, k)], caps) :
         shape \in RowShapes, caps \in ShapeCapDicts}

-----------------------------------------------------------------------------
(* Inputs: what the server answers for one project *)

\* the capability lists of the explored rules: empty or one capability.
\* The loops handle the capabilities one by one and look at the template
\* mark once per rule, which no default-permission loop changes, so a rule
\* with several capabilities merges like as many rules of one capability.
CapSeqs == {<<>>} \cup {<<c>> : c \in RawCaps}

\* one permission rule of the endpoint number ep
PlacedRules ==
    [ep : 1..Len(Endpoints), grantee : Grantees, capabilities : CapSeqs]

\* a slot of a placement that holds no rule
NoRule == [ep |-> 0, grantee |-> <<"", "">>, capabilities |-> <<>>]

\* at most MaxRules rules, listed endpoint by endpoint (empty slots first)
Placements ==
    {pl \in [1..MaxRules -> PlacedRules \cup {NoRule}] :
        \A i \in 1..(MaxRules - 1) : pl[i].ep <= pl[i + 1].ep}

RuleOf(p) ==
    [grantee_type |-> p.grantee[1], grantee_id |-> p.grantee[2],
     capabilities |-> p.capabilities]

RECURSIVE RulesAt(_, _, _)
RulesAt(placement, ep, i) ==
    IF i > Len(placement) THEN <<>>
    ELSE (IF placement[i].ep = ep THEN <<RuleOf(placement[i])>> ELSE <<>>)
         \o RulesAt(placement, ep, i + 1)

ServerOf(placement) ==
    [e \in EndpointSet |->
        [ok |-> TRUE,
         rules |-> RulesAt(placement,
                           CHOOSE i \in 1..Len(Endpoints) : Endpoints[i] = e, 1)]]

\* the placements of the specification with failing requests: at most two
\* rules
FetchPlacements ==
    {pl \in [1..2 -> PlacedRules \cup {NoRule}] : pl[1].ep <= pl[2].ep}

\* the server of a placement on which the requests of the endpoints in
\* failing fail; rules are the rules stored for the endpoint, which a failing
\* request does not deliver
ServerWithFailures(placement, failing) ==
    [e \in EndpointSet |->
        [ok |-> e \notin failing, rules |-> ServerOf(placement)[e].rules]]

\* no request fails, or the request of one endpoint fails
FailingSets == {{}} \cup {{e} : e \in EndpointSet}

\* the inputs of the repeated-call specification: no rule or one rule with
\* one capability
RepeatInputs ==
    {ServerOf(<<p>>) : p \in {q \in PlacedRules : Len(q.capabilities) = 1}}
    \cup {ServerOf(<<>>)}

\* contentPermissions of the project of the single-call specification
LockedToProject == "LockedToProject"

-----------------------------------------------------------------------------
(* Inputs: the selection of an export run and what the server answers *)

MaxSelected == 2

ContentKinds == <<"project", "workbook", "datasource", "view", "flow">>

ContentKindSet == SeqRange(ContentKinds)

KindIndex(kind) == CHOOSE i \in 1..Len(ContentKinds) : ContentKinds[i] = kind

\* the key of selected_items that lists the resources of a kind
SelectionKey(kind) == kind \o "s"

\* what get_groups() and get_users() return when they succeed
group_map == [id1 |-> "Analysts"]

user_map == [id1 |-> "alice"]

\* the rules of a workbook, datasource, view or flow
GroupRule ==
    [grantee_type |-> "group", grantee_id |-> "id1",
     capabilities |-> <<[name |-> "Read", mode |-> "Allow"]>>]

UserRule ==
    [grantee_type |-> "user", grantee_id |-> "id2",
     capabilities |-> <<[name |-> "Read", mode |-> "Deny"]>>]

\* the answers to the permission request of a workbook, datasource, view or
\* flow: a failure, no rule, one rule, two rules
ResourceAnswers ==
    {[ok |-> FALSE, rules |-> <<>>],
     [ok |-> TRUE, rules |-> <<>>],
     [ok |-> TRUE, rules |-> <<GroupRule>>],
     [ok |-> TRUE, rules |-> <<GroupRule, UserRule>>]}

\* the answers to the requests of get_project_permissions for a project: a
\* failing project-level request, no rule, a project-level rule, and a
\* project-level rule with a rule of the workbook defaults
ProjectAnswers ==
    LET p1 == [ep |-> 1, grantee |-> <<"group", "id1">>,
               capabilities |-> <<[name |-> "Read", mode |-> "Allow"]>>]
        p2 == [ep |-> 2, grantee |-> <<"user", "id1">>,
               capabilities |-> <<[name |-> "Read", mode |-> "Deny"]>>]
    IN  {ServerWithFailures(<<>>, {ProjectEndpoint}),
         ServerOf(<<>>), ServerOf(<<p1>>), ServerOf(<<p1, p2>>)}

AnswersOf(kind) == IF kind = "project" THEN ProjectAnswers ELSE ResourceAnswers

\* a selected resource with the answer the server gives for it
Slots ==
    UNION {{[kind |-> k, answer |-> a] : a \in AnswersOf(k)} : k \in ContentKindSet}

\* at most MaxSelected selected resources, listed kind by kind
Selections ==
    UNION {{sel \in [1..n -> Slots] :
                \A i \in 1..(n - 1) :
                    KindIndex(sel[i].kind) <= KindIndex(sel[i + 1].kind)} :
           n \in 0..MaxSelected}

ResourceId(i) == "r" \o ToString(i)

ResourceName(id) == "name of " \o id

\* the entry of selected_items for resource number i of kind
SelectedItem(kind, i) ==
    CASE kind = "project" -> ResourceId(i)
      [] kind = "view" ->
            [id |-> ResourceId(i), name |-> ResourceName(ResourceId(i)),
             workbook_name |-> "Sales"]
      [] OTHER -> [id |-> ResourceId(i), name |-> ResourceName(ResourceId(i))]

RECURSIVE ItemsOf(_, _, _)
ItemsOf(sel, kind, i) ==
    IF i > Len(sel) THEN <<>>
    ELSE (IF sel[i].kind = kind THEN <<SelectedItem(kind, i)>> ELSE <<>>)
         \o ItemsOf(sel, kind, i + 1)

\* get_selected_items()
SelectedItemsOf(sel) ==
    [key \in {SelectionKey(k) : k \in ContentKindSet} |->
        ItemsOf(sel, CHOOSE k \in ContentKindSet : SelectionKey(k) = key, 1)]

\* the answers to get_group_users for the group of group_map
MemberAnswers ==
    {[ok |-> TRUE, users |-> <<>>],
     [ok |-> FALSE, users |-> <<>>],
     [ok |-> TRUE, users |-> <<[id |-> "id1", name |-> "alice", email |-> ""]>>]}

\* which of get_groups and get_users fails
IdentityAnswers == {"ok", "get_groups fails", "get_users fails"}

\* the server of an export run of the selection sel
SiteOf(sel, identity, members) ==
    [identity |-> identity,
     perms |-> [id \in {ResourceId(i) : i \in 1..Len(sel)} |->
                   sel[CHOOSE i \in 1..Len(sel) : ResourceId(i) = id].answer],
     members |-> members]

NoRows == [k \in ContentKindSet |-> <<>>]

NoMessage == [title |-> "", exported |-> 0]

NoGroupFile == [written |-> FALSE, rows |-> <<>>]

\* no export run has started
ExportIdle ==
    /\ selected_items = SelectedItemsOf(<<>>)
    /\ site = SiteOf(<<>>, "ok", [ok |-> TRUE, users |-> <<>>])
    /\ include_group_members = FALSE
    /\ export_button = "normal"
    /\ worker = "idle"
    /\ total_files = 0
    /\ all_perms = NoRows
    /\ files = <<>>
    /\ warnings = <<>>
    /\ message = NoMessage
    /\ folder_path = ""
    /\ status_label = ""
    /\ progress = "hidden"
    /\ threads = 0
    /\ after_queue = <<>>
    /\ group_file = NoGroupFile

\* Python's None
None == "None"

NoOutcome == [op |-> "", raised |-> ""]

\* the client after __init__
ClientIdle ==
    /\ auth_token = None
    /\ site_id = None
    /\ user_id = None
    /\ sent = <<>>
    /\ outcome = NoOutcome

\* the children of a project node after display_projects: its sub-project
\* and the dummy child
InitialChildren == <<"project_p2", "dummy">>

\* the window after display_projects: no content type is checked, the
\* project is collapsed
TreeIdle ==
    /\ content_types = {}
    /\ node_open = FALSE
    /\ node_children = InitialChildren
    /\ content_loaded = FALSE
    /\ loaders = <<>>
    /\ tree_after = <<>>
    /\ raced = FALSE

NoLocals == [gp |-> EmptyGranteePermissions, gwt |-> {}, gwvc |-> {}]

-----------------------------------------------------------------------------
(* Specification *)

NoMemo ==
    [called |-> FALSE, others |-> FALSE, server |-> ServerOf(<<>>), cp |-> "",
     result |-> <<>>]

Locals ==
    [gp |-> grantee_permissions, gwt |-> grantees_with_template,
     gwvc |-> grantees_with_virtualconnection]

Init ==
    /\ \E pl \in Placements : server = ServerOf(pl)
    /\ content_permissions = LockedToProject
    /\ grantee_permissions = EmptyGranteePermissions
    /\ grantees_with_template = {}
    /\ grantees_with_virtualconnection = {}
    /\ merged_permissions = <<>>
    /\ pc = "idle"
    /\ requests = <<>>
    /\ memo = NoMemo
    /\ permissions = <<>>
    /\ csv_file = NoFile
    /\ ExportIdle
    /\ ClientIdle
    /\ TreeIdle

\* one call of get_project_permissions that is answered srv and cp; when
\* the request of the project-level permissions fails, raise_for_status
\* raises before any local of the merge exists and nothing is returned
Call(srv, cp) ==
    LET st == MergeState(srv, Locals)
        result == MergedPermissions(st, cp)
    IN  /\ server' = srv
        /\ content_permissions' = cp
        /\ requests' = RequestsOf(srv)
        /\ IF srv[ProjectEndpoint].ok
           THEN /\ grantee_permissions' = st.gp
                /\ grantees_with_template' = st.gwt
                /\ grantees_with_virtualconnection' = st.gwvc
                /\ merged_permissions' = result
                /\ pc' = "merged"
                /\ memo' = IF ~memo.called
                           THEN [called |-> TRUE, others |-> FALSE,
                                 server |-> srv, cp |-> cp, result |-> result]
                           ELSE IF srv # memo.server
                           THEN [memo EXCEPT !.others = TRUE]
                           ELSE memo
           ELSE /\ grantee_permissions' = EmptyGranteePermissions
                /\ grantees_with_template' = {}
                /\ grantees_with_virtualconnection' = {}
                /\ pc' = "raised"
                /\ UNCHANGED <<merged_permissions, memo>>
        /\ UNCHANGED <<permissions, csv_file>>
        /\ UNCHANGED <<export_vars, client_vars, tree_vars>>

GetProjectPermissions == Call(server, content_permissions)

Next == GetProjectPermissions

Spec == Init /\ [][Next]_vars

\* successive calls, each for a project with its own rules
InitRepeat ==
    /\ server = ServerOf(<<>>)
    /\ content_permissions = ""
    /\ grantee_permissions = EmptyGranteePermissions
    /\ grantees_with_template = {}
    /\ grantees_with_virtualconnection = {}
    /\ merged_permissions = <<>>
    /\ pc = "idle"
    /\ requests = <<>>
    /\ memo = NoMemo
    /\ permissions = <<>>
    /\ csv_file = NoFile
    /\ ExportIdle
    /\ ClientIdle
    /\ TreeIdle

GetPermissionsOfNextProject ==
    \E srv \in RepeatInputs : Call(srv, LockedToProject)

NextRepeat == GetPermissionsOfNextProject

SpecRepeat == InitRepeat /\ [][NextRepeat]_vars

\* one call for a project of which one request may fail
InitFetch ==
    /\ \E pl \in FetchPlacements : \E failing \in FailingSets :
           server = ServerWithFailures(pl, failing)
    /\ content_permissions = LockedToProject
    /\ grantee_permissions = EmptyGranteePermissions
    /\ grantees_with_template = {}
    /\ grantees_with_virtualconnection = {}
    /\ merged_permissions = <<>>
    /\ pc = "idle"
    /\ requests = <<>>
    /\ memo = NoMemo
    /\ permissions = <<>>
    /\ csv_file = NoFile
    /\ ExportIdle
    /\ ClientIdle
    /\ TreeIdle

NextFetch == GetProjectPermissions

SpecFetch == InitFetch /\ [][NextFetch]_vars

\* one export of a batch of rows
InitCsv ==
    /\ server = ServerOf(<<>>)
    /\ content_permissions = ""
    /\ grantee_permissions = EmptyGranteePermissions
    /\ grantees_with_template = {}
    /\ grantees_with_virtualconnection = {}
    /\ merged_permissions = <<>>
    /\ pc = "idle"
    /\ requests = <<>>
    /\ memo = NoMemo
    /\ \E n \in 0..MaxRows : permissions \in [1..n -> BatchRows]
    /\ csv_file = NoFile
    /\ ExportIdle
    /\ ClientIdle
    /\ TreeIdle

NextCsv == ExportPermissionsToCsv

SpecCsv == InitCsv /\ [][NextCsv]_vars

\* one export of a batch of rows that differ in their identity keys
InitShaped ==
    /\ server = ServerOf(<<>>)
    /\ content_permissions = ""
    /\ grantee_permissions = EmptyGranteePermissions
    /\ grantees_with_template = {}
    /\ grantees_with_virtualconnection = {}
    /\ merged_permissions = <<>>
    /\ pc = "idle"
    /\ requests = <<>>
    /\ memo = NoMemo
    /\ \E n \in 0..MaxRows : permissions \in [1..n -> ShapedRows]
    /\ csv_file = NoFile
    /\ ExportIdle
    /\ ClientIdle
    /\ TreeIdle

NextShaped == ExportPermissionsToCsv

SpecShaped == InitShaped /\ [][NextShaped]_vars

\* the rows of the batches of any content kind; "lens" has no entry in
\* capability_order
KindRows ==
    {DictUpdate([content_type |-> ct, content_id |-> "c1",
                 grantee_name |-> "Analysts"], caps) :
         ct \in DOMAIN capability_order \cup {"lens"}, caps \in RowCapDicts}

\* one export of a batch of at most two rows of any content kind
InitKinds ==
    /\ server = ServerOf(<<>>)
    /\ content_permissions = ""
    /\ grantee_permissions = EmptyGranteePermissions
    /\ grantees_with_template = {}
    /\ grantees_with_virtualconnection = {}
    /\ merged_permissions = <<>>
    /\ pc = "idle"
    /\ requests = <<>>
    /\ memo = NoMemo
    /\ \E n \in 0..2 : permissions \in [1..n -> KindRows]
    /\ csv_file = NoFile
    /\ ExportIdle
    /\ ClientIdle
    /\ TreeIdle

NextKinds == ExportPermissionsToCsv

SpecKinds == InitKinds /\ [][NextKinds]_vars

-----------------------------------------------------------------------------
(* MainWindow.export_permissions and its worker thread export() *)

ItemId(kind, item) == IF kind = "project" THEN item ELSE item.id

\* proj_name is looked up in self.projects, the other names are in the item
ItemName(kind, item) ==
    IF kind = "project" THEN ResourceName(item) ELSE item.name

\* whether the permission request of the resource succeeds
FetchOk(kind, id) ==
    IF kind = "project" THEN site.perms[id][ProjectEndpoint].ok
    ELSE site.perms[id].ok

\* get_project_permissions(id), get_workbook_permissions(id), ...
PermissionsOf(kind, id) ==
    IF kind = "project"
    THEN MergedPermissions(MergeState(site.perms[id], NoLocals), LockedToProject)
    ELSE site.perms[id].rules

\* group_map.get(id, '') if grantee_type == 'group' else user_map.get(id, '')
GranteeName(perm) ==
    IF perm.grantee_type = "group"
    THEN Get(group_map, perm.grantee_id)
    ELSE Get(user_map, perm.grantee_id)

\* the keys every row of the resource starts with
RowBase(kind, item) ==
    LET base == [content_type |-> kind, content_id |-> ItemId(kind, item),
                 content_name |-> ItemName(kind, item)]
    IN  CASE kind = "project" ->
                DictSet(base, "project_name", ItemName(kind, item))
          [] kind = "view" -> DictSet(base, "workbook_name", item.workbook_name)
          [] OTHER -> base

\* the row appended when the resource has no permission
PlaceholderRow(kind, item) ==
    IF kind = "project"
    THEN DictUpdate(RowBase(kind, item),
                    [asset_permissions |-> "", grantee_type |-> "",
                     grantee_id |-> "", grantee_name |-> "No permissions set"])
    ELSE DictSet(RowBase(kind, item), "grantee_name", "No permissions set")

\* for cap in perm['capabilities']: perm_data[cap['name']] = cap['mode']
RECURSIVE SetCapabilities(_, _, _)
SetCapabilities(perm_data, caps, j) ==
    IF j > Len(caps) THEN perm_data
    ELSE SetCapabilities(DictSet(perm_data, caps[j].name, caps[j].mode),
                         caps, j + 1)

\* perm_data of one permission record of the resource
PermRow(kind, item, perm) ==
    LET grantee == [grantee_type |-> perm.grantee_type,
                    grantee_id |-> perm.grantee_id,
                    grantee_name |-> GranteeName(perm)]
    IN  IF kind = "project"
        THEN DictUpdate(
                 DictUpdate(DictSet(RowBase(kind, item), "asset_permissions",
                                    Get(perm, "asset_permissions")),
                            grantee),
                 perm.capabilities)
        ELSE SetCapabilities(DictUpdate(RowBase(kind, item), grantee),
                             perm.capabilities, 1)

\* variant: a resource without permission gets no row
ResourceRows_NoPlaceholder(kind, item) ==
    [i \in 1..Len(PermissionsOf(kind, ItemId(kind, item))) |->
        PermRow(kind, item, PermissionsOf(kind, ItemId(kind, item))[i])]

\* the rows appended for a resource whose permission request succeeded
ResourceRows(kind, item) ==
    LET perms == PermissionsOf(kind, ItemId(kind, item))
    IN  IF perms = <<>>
        THEN <<PlaceholderRow(kind, item)>>
        ELSE [i \in 1..Len(perms) |-> PermRow(kind, item, perms[i])]

\* variant: no loop has a try/except of its own
HasOwnTry_None(kind) == FALSE

\* the loops with a try/except inside the loop body
HasOwnTry(kind) == kind \in {"project", "view"}

\* the loop over the selected resources of a kind: the rows collected, the
\* resources skipped with a warning, and whether an exception left the loop
RECURSIVE CollectRows(_, _, _, _)
CollectRows(kind, items, i, acc) ==
    IF i > Len(items) THEN acc
    ELSE IF FetchOk(kind, ItemId(kind, items[i]))
    THEN CollectRows(kind, items, i + 1,
                     [acc EXCEPT !.rows = @ \o ResourceRows(kind, items[i])])
    ELSE IF HasOwnTry(kind)
    THEN CollectRows(kind, items, i + 1,
                     [acc EXCEPT !.warned = Append(@, ItemId(kind, items[i]))])
    ELSE [acc EXCEPT !.raised = TRUE]

\* variant: the file of a kind is written whatever was collected
ShouldWrite_Always(rows) == TRUE

\* if all_perms:
ShouldWrite(rows) == rows # <<>>

\* what export_permissions_to_csv leaves on disk for a batch
CsvFilesFor(rows) ==
    IF rows = <<>> THEN {NoFile}
    ELSE {WrittenFile(rows, ct) : ct \in DetectedContentTypes(rows)}

\* the callbacks of the finally clause of export(), in the order they are
\* scheduled
FinallyCallbacks ==
    <<[op |-> "progress.stop"], [op |-> "pack_forget"],
      [op |-> "export_button.config", state |-> "normal"]>>

\* the except and finally clauses of export(): the thread ends after it has
\* scheduled the error message and the callbacks of the finally clause
Fail ==
    /\ worker' = "failed"
    /\ after_queue' = after_queue
                          \o <<[op |-> "showerror", title |-> "Export Error"],
                               [op |-> "status_label.config", text |-> ""]>>
                          \o FinallyCallbacks
    /\ threads' = threads - 1
    /\ UNCHANGED <<export_button, message, status_label, progress>>

\* variant: the button stays enabled while the thread runs
StateWhileExporting_Normal == "normal"

\* self.export_button.config(state='disabled')
StateWhileExporting == "disabled"

\* export_permissions up to the start of the thread; the handler runs when
\* the button is clicked, which an enabled button allows
StartExport ==
    /\ export_button = "normal"
    /\ threads < 2
    /\ IF \A k \in ContentKindSet : selected_items[SelectionKey(k)] = <<>>
       THEN /\ message' = [title |-> "Warning", exported |-> 0]
            /\ UNCHANGED <<export_button, worker, total_files, all_perms,
                           files, warnings, folder_path, status_label,
                           progress, threads, group_file>>
       ELSE \E answer \in {"", "/out"} :
                /\ folder_path' = answer
                /\ IF answer = ""
                   THEN UNCHANGED <<export_button, worker, total_files,
                                    all_perms, files, warnings, message,
                                    status_label, progress, threads,
                                    group_file>>
                   ELSE /\ export_button' = StateWhileExporting
                        /\ status_label' = "Exporting..."
                        /\ progress' = "running"
                        /\ threads' = threads + 1
                        /\ worker' = "identity"
                        /\ total_files' = 0
                        /\ all_perms' = NoRows
                        /\ files' = <<>>
                        /\ warnings' = <<>>
                        /\ group_file' = NoGroupFile
                        /\ UNCHANGED message
    /\ UNCHANGED <<selected_items, site, include_group_members, after_queue>>
    /\ UNCHANGED <<merge_vars, permissions, csv_file, client_vars, tree_vars>>

\* variant: the two requests never fail
IdentityFails_Never(s) == FALSE

\* whether get_groups() or get_users() raises
IdentityFails(s) == s.identity # "ok"

\* group_map = get_groups(); user_map = get_users(); total_files = 0
FetchIdentity ==
    /\ worker = "identity"
    /\ IF IdentityFails(site)
       THEN Fail
       ELSE /\ worker' = "project"
            /\ UNCHANGED <<export_button, message, status_label, progress,
                           threads, after_queue>>
    /\ UNCHANGED <<selected_items, site, include_group_members, total_files,
                   all_perms, files, warnings, folder_path, group_file>>
    /\ UNCHANGED <<merge_vars, permissions, csv_file, client_vars, tree_vars>>

\* the block of one content kind: the loop and the write of the file
ExportKind(kind, next) ==
    LET r == CollectRows(kind, selected_items[SelectionKey(kind)], 1,
                         [rows |-> <<>>, warned |-> <<>>, raised |-> FALSE])
    IN  /\ worker = kind
        /\ all_perms' = [all_perms EXCEPT ![kind] = r.rows]
        /\ warnings' = warnings \o r.warned
        /\ IF r.raised
           THEN /\ Fail
                /\ UNCHANGED <<total_files, files, permissions, csv_file>>
           ELSE /\ worker' = next
                /\ UNCHANGED <<export_button, message, status_label, progress,
                               threads, after_queue>>
                /\ IF selected_items[SelectionKey(kind)] # <<>>
                      /\ ShouldWrite(r.rows)
                   THEN /\ files' = Append(files, [kind |-> kind,
                                                   permissions |-> r.rows])
                        /\ permissions' = r.rows
                        /\ csv_file' \in CsvFilesFor(r.rows)
                        /\ total_files' = total_files + 1
                   ELSE UNCHANGED <<total_files, files, permissions, csv_file>>
        /\ UNCHANGED <<selected_items, site, include_group_members,
                       folder_path, group_file>>
        /\ UNCHANGED <<merge_vars, client_vars, tree_vars>>

ExportProjects == ExportKind("project", "workbook")

ExportWorkbooks == ExportKind("workbook", "datasource")

ExportDatasources == ExportKind("datasource", "view")

ExportViews == ExportKind("view", "flow")

ExportFlows == ExportKind("flow", "groups")

\* whether export_group_members returns a file name: it returns None when a
\* request fails or no member was found
GroupFileWritten == site.members.ok /\ site.members.users # <<>>

\* all_members of export_group_members: the members of the groups whose
\* request succeeds
all_members(s) ==
    IF s.members.ok
    THEN [i \in 1..Len(s.members.users) |->
             [group_id |-> "id1", group_name |-> group_map["id1"],
              user_id |-> s.members.users[i].id,
              user_name |-> s.members.users[i].name,
              user_email |-> s.members.users[i].email]]
    ELSE <<>>

\* what export_group_members leaves on disk and returns: the file when
\* all_members is not empty, None (no file) otherwise
export_group_members(s) ==
    IF GroupFileWritten
    THEN [written |-> TRUE, rows |-> all_members(s)]
    ELSE NoGroupFile

\* variant: the group file is counted whenever it was requested
GroupFileCounted_Always(group_result) == TRUE

\* if group_file: total_files += 1
GroupFileCounted(group_result) == group_result.written

\* the group membership block, the completion message and the finally
\* clause: the thread ends after it has scheduled the callbacks
FinishExport ==
    /\ worker = "groups"
    /\ IF include_group_members
       THEN /\ group_file' = export_group_members(site)
            /\ total_files' = IF GroupFileCounted(export_group_members(site))
                              THEN total_files + 1 ELSE total_files
       ELSE UNCHANGED <<group_file, total_files>>
    /\ after_queue' = after_queue
                          \o <<[op |-> "showinfo", title |-> "Complete",
                                exported |-> total_files'],
                               [op |-> "status_label.config",
                                text |-> "Export complete"]>>
                          \o FinallyCallbacks
    /\ worker' = "done"
    /\ threads' = threads - 1
    /\ UNCHANGED <<selected_items, site, include_group_members, all_perms,
                   files, warnings, export_button, message, folder_path,
                   status_label, progress>>
    /\ UNCHANGED <<merge_vars, permissions, csv_file, client_vars, tree_vars>>

\* the main loop runs the callback scheduled first
RunCallback ==
    /\ after_queue # <<>>
    /\ after_queue' = Tail(after_queue)
    /\ LET cb == Head(after_queue)
       IN  CASE cb.op = "showinfo" ->
                   /\ message' = [title |-> cb.title, exported |-> cb.exported]
                   /\ UNCHANGED <<status_label, progress, export_button>>
             [] cb.op = "showerror" ->
                   /\ message' = [title |-> cb.title, exported |-> 0]
                   /\ UNCHANGED <<status_label, progress, export_button>>
             [] cb.op = "status_label.config" ->
                   /\ status_label' = cb.text
                   /\ UNCHANGED <<message, progress, export_button>>
             [] cb.op = "progress.stop" ->
                   /\ progress' = "stopped"
                   /\ UNCHANGED <<message, status_label, export_button>>
             [] cb.op = "pack_forget" ->
                   /\ progress' = "hidden"
                   /\ UNCHANGED <<message, status_label, export_button>>
             [] cb.op = "export_button.config" ->
                   /\ export_button' = cb.state
                   /\ UNCHANGED <<message, status_label, progress>>
    /\ UNCHANGED <<selected_items, site, include_group_members, worker,
                   total_files, all_perms, files, warnings, folder_path,
                   threads, group_file>>
    /\ UNCHANGED <<merge_vars, permissions, csv_file, client_vars, tree_vars>>

\* an export run of a selection
InitExport ==
    /\ server = ServerOf(<<>>)
    /\ content_permissions = ""
    /\ grantee_permissions = EmptyGranteePermissions
    /\ grantees_with_template = {}
    /\ grantees_with_virtualconnection = {}
    /\ merged_permissions = <<>>
    /\ pc = "idle"
    /\ requests = <<>>
    /\ memo = NoMemo
    /\ permissions = <<>>
    /\ csv_file = NoFile
    /\ \E sel \in Selections : \E identity \in IdentityAnswers :
       \E members \in MemberAnswers :
           /\ selected_items = SelectedItemsOf(sel)
           /\ site = SiteOf(sel, identity, members)
           /\ include_group_members \in BOOLEAN
           /\ ~include_group_members => members = [ok |-> TRUE, users |-> <<>>]
    /\ export_button = "normal"
    /\ worker = "idle"
    /\ total_files = 0
    /\ all_perms = NoRows
    /\ files = <<>>
    /\ warnings = <<>>
    /\ message = NoMessage
    /\ folder_path = ""
    /\ status_label = ""
    /\ progress = "hidden"
    /\ threads = 0
    /\ after_queue = <<>>
    /\ group_file = NoGroupFile
    /\ ClientIdle
    /\ TreeIdle

\* tkinter runs the callbacks given to root.after in the main loop
ExportFairness == WF_vars(RunCallback)

NextExport ==
    \/ StartExport
    \/ FetchIdentity
    \/ ExportProjects
    \/ ExportWorkbooks
    \/ ExportDatasources
    \/ ExportViews
    \/ ExportFlows
    \/ FinishExport
    \/ RunCallback

SpecExport == InitExport /\ [][NextExport]_vars

SpecExportFair == InitExport /\ [][NextExport]_vars /\ ExportFairness

-----------------------------------------------------------------------------
(* TableauCloudClient.sign_in, _get_headers, sign_out *)

\* no call of get_project_permissions, export_permissions_to_csv or
\* export_permissions has been made
NothingExported ==
    /\ server = ServerOf(<<>>)
    /\ content_permissions = ""
    /\ grantee_permissions = EmptyGranteePermissions
    /\ grantees_with_template = {}
    /\ grantees_with_virtualconnection = {}
    /\ merged_permissions = <<>>
    /\ pc = "idle"
    /\ requests = <<>>
    /\ memo = NoMemo
    /\ permissions = <<>>
    /\ csv_file = NoFile
    /\ ExportIdle

\* the answers of the server to the sign-in request: an HTTP error status,
\* an error element, a body without credentials or site element, and the
\* credentials of a session with or without user element
SignInAnswers ==
    {[kind |-> k, token |-> None, site_id |-> None, user_id |-> None] :
         k \in {"http_error", "error", "incomplete"}}
    \cup [kind : {"ok"}, token : {"t1", "t2"}, site_id : {"s1", "s2"},
          user_id : {"u1", None}]

\* the exception a sign_in with this answer raises, "" when it returns True
SignInRaises(answer) ==
    CASE answer.kind = "http_error" -> "HTTPError"
      [] answer.kind = "error" -> "Authentication error"
      [] answer.kind = "incomplete" ->
             "Failed to retrieve authentication information"
      [] answer.kind = "ok" -> ""

sign_in ==
    /\ Len(sent) < MaxSent
    /\ \E answer \in SignInAnswers :
           /\ sent' = Append(sent, [url |-> "auth/signin",
                                    ok |-> answer.kind # "http_error"])
           /\ outcome' = [op |-> "sign_in", raised |-> SignInRaises(answer)]
           /\ IF answer.kind = "ok"
              THEN /\ auth_token' = answer.token
                   /\ site_id' = answer.site_id
                   /\ user_id' = IF answer.user_id # None
                                 THEN answer.user_id ELSE user_id
              ELSE UNCHANGED <<auth_token, site_id, user_id>>
    /\ UNCHANGED <<merge_vars, permissions, csv_file, export_vars, tree_vars>>

\* a get_ method: the url is built, _get_headers raises when auth_token is
\* not set, otherwise the request is sent and raise_for_status called
fetch ==
    /\ Len(sent) < MaxSent
    /\ IF auth_token = None
       THEN /\ outcome' = [op |-> "fetch",
                           raised |-> "Please execute sign_in() first"]
            /\ UNCHANGED sent
       ELSE \E ok \in BOOLEAN :
                /\ sent' = Append(sent, [url |-> "sites/" \o site_id, ok |-> ok])
                /\ outcome' = [op |-> "fetch",
                               raised |-> IF ok THEN "" ELSE "HTTPError"]
    /\ UNCHANGED <<auth_token, site_id, user_id>>
    /\ UNCHANGED <<merge_vars, permissions, csv_file, export_vars, tree_vars>>

\* variant: the session is kept when the sign-out request fails
SignOutClears_OnSuccess(ok) == ok

\* try: requests.post(...) except: pass; then the three attributes are reset
SignOutClears(ok) == TRUE

sign_out ==
    /\ Len(sent) < MaxSent
    /\ outcome' = [op |-> "sign_out", raised |-> ""]
    /\ IF auth_token = None
       THEN UNCHANGED <<auth_token, site_id, user_id, sent>>
       ELSE \E ok \in BOOLEAN :
                /\ sent' = Append(sent, [url |-> "auth/signout", ok |-> ok])
                /\ IF SignOutClears(ok)
                   THEN /\ auth_token' = None
                        /\ site_id' = None
                        /\ user_id' = None
                   ELSE UNCHANGED <<auth_token, site_id, user_id>>
    /\ UNCHANGED <<merge_vars, permissions, csv_file, export_vars, tree_vars>>

InitSession == NothingExported /\ ClientIdle /\ TreeIdle

NextSession == sign_in \/ fetch \/ sign_out

SpecSession == InitSession /\ [][NextSession]_vars

-----------------------------------------------------------------------------
(* MainWindow.on_tree_expand, on_content_type_changed,                     *)
(* load_content_for_project and _add_content_to_tree for one project       *)

LoadableTypes == <<"workbook", "datasource", "flow">>

\* what the server holds in the project: a workbook, a data source, no flow
ProjectContent ==
    [workbook |-> <<"workbook_w1">>, datasource |-> <<"datasource_d1">>,
     flow |-> <<>>]

\* content_items of load(): the items of the selected types, type by type
RECURSIVE content_items(_, _)
content_items(selected_types, i) ==
    IF i > Len(LoadableTypes) THEN <<>>
    ELSE (IF LoadableTypes[i] \in selected_types
          THEN ProjectContent[LoadableTypes[i]] ELSE <<>>)
         \o content_items(selected_types, i + 1)

\* tags[0].startswith('project_')
IsSubProject(tag) == tag = "project_p2"

SubProjects(children) == SelectSeq(children, IsSubProject)

LoadingItem(i) == "loading" \o ToString(i)

\* load_content_for_project: the children that are not sub-projects are
\* removed; when a type is selected, the loading indicator is inserted and a
\* thread with the selection of this moment is started
load_content_for_project(selected_types) ==
    /\ content_loaded' = TRUE
    /\ IF selected_types = {}
       THEN /\ node_children' = SubProjects(node_children)
            /\ UNCHANGED loaders
       ELSE /\ node_children' = <<LoadingItem(Len(loaders) + 1)>>
                                    \o SubProjects(node_children)
            /\ loaders' = Append(loaders,
                                 [selected_types |-> selected_types,
                                  pos |-> "running"])

\* the user expands or collapses the project node
on_tree_expand ==
    /\ Len(loaders) < MaxLoads
    /\ ~node_open
    /\ node_open' = TRUE
    /\ IF ~content_loaded
       THEN load_content_for_project(content_types)
       ELSE UNCHANGED <<node_children, content_loaded, loaders>>
    /\ UNCHANGED <<content_types, tree_after, raced>>
    /\ UNCHANGED <<merge_vars, permissions, csv_file, export_vars, client_vars>>

CollapseNode ==
    /\ node_open
    /\ node_open' = FALSE
    /\ UNCHANGED <<content_types, node_children, content_loaded, loaders,
                   tree_after, raced>>
    /\ UNCHANGED <<merge_vars, permissions, csv_file, export_vars, client_vars>>

\* the user toggles the check box of a content type
on_content_type_changed ==
    /\ Len(loaders) < MaxLoads
    /\ \E t \in SeqRange(LoadableTypes) :
           /\ content_types' = IF t \in content_types
                                THEN content_types \ {t}
                                ELSE content_types \cup {t}
           /\ raced' = \E i \in 1..Len(loaders) : loaders[i].pos # "done"
           /\ IF content_types' = {}
              THEN /\ node_open' = FALSE
                   /\ content_loaded' = FALSE
                   /\ UNCHANGED <<node_children, loaders>>
              ELSE /\ UNCHANGED node_open
                   /\ IF node_open
                      THEN load_content_for_project(content_types')
                      ELSE /\ content_loaded' = FALSE
                           /\ UNCHANGED <<node_children, loaders>>
    /\ UNCHANGED tree_after
    /\ UNCHANGED <<merge_vars, permissions, csv_file, export_vars, client_vars>>

\* the thread number i has its content_items and schedules update_tree
LoadFinish(i) ==
    /\ loaders[i].pos = "running"
    /\ loaders' = [loaders EXCEPT ![i].pos = "scheduled"]
    /\ tree_after' = Append(tree_after, i)
    /\ UNCHANGED <<content_types, node_open, node_children, content_loaded,
                   raced>>
    /\ UNCHANGED <<merge_vars, permissions, csv_file, export_vars, client_vars>>

\* update_tree of thread i: its loading indicator is deleted, then
\* _add_content_to_tree replaces every child that is not a sub-project by
\* the content items of the thread, or by the no-content message
add_content_to_tree(children, i) ==
    (IF content_items(loaders[i].selected_types, 1) = <<>>
     THEN <<"no_content">>
     ELSE content_items(loaders[i].selected_types, 1))
    \o SubProjects(children)

\* the main loop runs the update_tree scheduled first
UpdateTree ==
    /\ tree_after # <<>>
    /\ tree_after' = Tail(tree_after)
    /\ node_children' = add_content_to_tree(node_children, Head(tree_after))
    /\ loaders' = [loaders EXCEPT ![Head(tree_after)].pos = "done"]
    /\ UNCHANGED <<content_types, node_open, content_loaded, raced>>
    /\ UNCHANGED <<merge_vars, permissions, csv_file, export_vars, client_vars>>

InitTree == NothingExported /\ ClientIdle /\ TreeIdle

NextTree ==
    \/ on_tree_expand
    \/ CollapseNode
    \/ on_content_type_changed
    \/ \E i \in 1..Len(loaders) : LoadFinish(i)
    \/ UpdateTree

SpecTree == InitTree /\ [][NextTree]_vars

-----------------------------------------------------------------------------
(* Reading the input and the result *)

\* the rule list merged as source number s: 0 is the project-level source,
\* 1..6 are the default-permission sources in merge order
SourceRules(srv, s) ==
    IF s = 0 THEN srv[ProjectEndpoint].rules ELSE DefaultPerms(srv, NestedKinds[s])

SourceIds == 0..Len(NestedKinds)

IsTemplateName(name, s) ==
    name \in DOMAIN (IF s = 0 THEN project_templates ELSE TemplatesOf(NestedKinds[s]))

HasTemplateIn(srv, g, s) ==
    \E i \in 1..Len(SourceRules(srv, s)) :
        /\ GranteeKey(SourceRules(srv, s)[i]) = g
        /\ \E j \in 1..Len(SourceRules(srv, s)[i].capabilities) :
               IsTemplateName(SourceRules(srv, s)[i].capabilities[j].name, s)

HasRawCapIn(srv, g, s) ==
    \E i \in 1..Len(SourceRules(srv, s)) :
        /\ GranteeKey(SourceRules(srv, s)[i]) = g
        /\ \E j \in 1..Len(SourceRules(srv, s)[i].capabilities) :
               ~IsTemplateName(SourceRules(srv, s)[i].capabilities[j].name, s)

OccursIn(srv, g, s) ==
    \E i \in 1..Len(SourceRules(srv, s)) : GranteeKey(SourceRules(srv, s)[i]) = g

HasRecordIn(merged, g) ==
    \E i \in 1..Len(merged) : <<merged[i].grantee_type, merged[i].grantee_id>> = g

CapsIn(merged, g) ==
    merged[CHOOSE i \in 1..Len(merged) :
               <<merged[i].grantee_type, merged[i].grantee_id>> = g].capabilities

\* every entry (name and mode) of e is in d
Contains(d, e) == \A n \in DOMAIN e : n \in DOMAIN d /\ d[n] = e[n]

-----------------------------------------------------------------------------
(* C2 *)

\* what get_project_permissions returns when the server answers srv
ResultFor(srv) == MergedPermissions(MergeState(srv, NoLocals), content_permissions)

\* the number of the source an endpoint feeds
SourceIdOf(e) ==
    CASE e = "project" -> 0
      [] e = "workbooks" -> 1
      [] e = "datasources" -> 2
      [] e = "flows" -> 3
      [] e \in {"virtualconnections", "lenses", "virtual-connections"} -> 4
      [] e = "databases" -> 5
      [] e = "tables" -> 6

TemplateCapsOnly(caps, s) ==
    LET Keep(c) == IsTemplateName(c.name, s) IN SelectSeq(caps, Keep)

\* srv without the non-template capabilities of g in the default-permission
\* sources processed after source s0 (the rules themselves stay)
StripLater(srv, g, s0) ==
    [e \in DOMAIN srv |->
        IF SourceIdOf(e) > s0
        THEN [srv[e] EXCEPT !.rules =
                 [i \in 1..Len(srv[e].rules) |->
                     IF GranteeKey(srv[e].rules[i]) = g
                     THEN [srv[e].rules[i] EXCEPT !.capabilities =
                              TemplateCapsOnly(@, SourceIdOf(e))]
                     ELSE srv[e].rules[i]]]
        ELSE srv[e]]

FirstTemplateSource(srv, g) ==
    CHOOSE s \in SourceIds :
        /\ HasTemplateIn(srv, g, s)
        /\ \A t \in SourceIds : HasTemplateIn(srv, g, t) => s <= t

SameRecord(m1, m2, g) ==
    /\ HasRecordIn(m1, g) <=> HasRecordIn(m2, g)
    /\ HasRecordIn(m1, g) => CapsIn(m1, g) = CapsIn(m2, g)

-----------------------------------------------------------------------------
(* C3 *)

NamespacedIn(s, name) ==
    IF s = 0 THEN name ELSE Namespaced(NestedKinds[s], name)

CapsContrib(caps, s) ==
    [j \in 1..Len(caps) |->
        [name |-> NamespacedIn(s, caps[j].name), mode |-> caps[j].mode]]

RECURSIVE RulesContrib(_, _, _, _)
RulesContrib(rules, g, s, i) ==
    IF i > Len(rules) THEN <<>>
    ELSE (IF GranteeKey(rules[i]) = g
          THEN CapsContrib(rules[i].capabilities, s) ELSE <<>>)
         \o RulesContrib(rules, g, s, i + 1)

\* the namespaced raw capabilities of g in the order the merge meets them
RECURSIVE Contribs(_, _, _)
Contribs(srv, g, s) ==
    IF s > Len(NestedKinds) THEN <<>>
    ELSE RulesContrib(SourceRules(srv, s), g, s, 1) \o Contribs(srv, g, s + 1)

ContribNames(c) == {c[i].name : i \in 1..Len(c)}

FirstMode(c, n) ==
    c[CHOOSE i \in 1..Len(c) :
          c[i].name = n /\ \A j \in 1..Len(c) : c[j].name = n => i <= j].mode

LastMode(c, n) ==
    c[CHOOSE i \in 1..Len(c) :
          c[i].name = n /\ \A j \in 1..Len(c) : c[j].name = n => i >= j].mode

NoTemplate(srv, g) == \A s \in SourceIds : ~HasTemplateIn(srv, g, s)

\* C3 (as stated): for a grantee without template the keys of the merged
\* record are exactly the namespaced raw names seen, and a name contributed
\* more than once keeps the mode of the earlier contribution
C3_UnionFirstWins ==
    pc = "merged" =>
        \A g \in Grantees :
            (NoTemplate(server, g) /\ HasRecordIn(merged_permissions, g)) =>
                LET c == Contribs(server, g, 0)
                    caps == CapsIn(merged_permissions, g)
                IN  /\ DOMAIN caps = ContribNames(c)
                    /\ \A n \in ContribNames(c) : caps[n] = FirstMode(c, n)

\* C3 (amended): for a grantee without template the keys of the merged
\* record are the namespaced raw names seen, plus virtualconnection_Write
\* when the grantee occurs in the virtual-connection source, and a name
\* contributed more than once keeps the mode of the latest contribution
C3_UnionLastWins ==
    pc = "merged" =>
        \A g \in Grantees :
            (NoTemplate(server, g) /\ HasRecordIn(merged_permissions, g)) =>
                LET c == Contribs(server, g, 0)
                    caps == CapsIn(merged_permissions, g)
                IN  /\ DOMAIN caps =
                           ContribNames(c) \cup
                           (IF OccursIn(server, g, 4)
                            THEN {"virtualconnection_Write"} ELSE {})
                    /\ \A n \in ContribNames(c) : caps[n] = LastMode(c, n)

\* a grantee without template got the same namespaced name twice with
\* different modes
C3_Witness ==
    /\ pc = "merged"
    /\ \E g \in Grantees :
           /\ NoTemplate(server, g)
           /\ HasRecordIn(merged_permissions, g)
           /\ \E n \in ContribNames(Contribs(server, g, 0)) :
                  /\ FirstMode(Contribs(server, g, 0), n)
                         # LastMode(Contribs(server, g, 0), n)
                  /\ n \in DOMAIN CapsIn(merged_permissions, g)

-----------------------------------------------------------------------------
(* C4 *)

\* C4: in the result, a grantee with a key starting with virtualconnection_
\* has virtualconnection_Write, with the mode set during the merge if there
\* was one and "No API Endpoint" otherwise
C4_VirtualConnectionWritePresent ==
    pc = "merged" =>
        \A i \in 1..Len(merged_permissions) :
            LET caps == merged_permissions[i].capabilities
                g == <<merged_permissions[i].grantee_type,
                       merged_permissions[i].grantee_id>>
                before == PreConvertState(server, NoLocals).gp.caps[g]
            IN  (\E k \in DOMAIN caps : StartsWithVirtualConnection(k)) =>
                    /\ "virtualconnection_Write" \in DOMAIN caps
                    /\ caps["virtualconnection_Write"] =
                           IF "virtualconnection_Write" \in DOMAIN before
                           THEN before["virtualconnection_Write"]
                           ELSE "No API Endpoint"

\* a grantee without template got a raw virtual-connection capability other
\* than Write, and the result carries the added entry
C4_Witness ==
    /\ pc = "merged"
    /\ \E i \in 1..Len(merged_permissions) :
           /\ NoTemplate(server, <<merged_permissions[i].grantee_type,
                                   merged_permissions[i].grantee_id>>)
           /\ "virtualconnection_Read" \in DOMAIN merged_permissions[i].capabilities
           /\ "virtualconnection_Write" \in DOMAIN merged_permissions[i].capabilities
           /\ merged_permissions[i].capabilities["virtualconnection_Write"]
                  = "No API Endpoint"

-----------------------------------------------------------------------------
(* C5 *)

\* the only rule anywhere is one project-level rule of g with the template
OnlyProjectTemplateRule(srv, g) ==
    /\ srv[ProjectEndpoint].rules =
           <<[grantee_type |-> g[1], grantee_id |-> g[2],
              capabilities |->
                  <<[name |-> "InheritedProjectLeader", mode |-> "Allow"]>>]>>
    /\ \A e \in DOMAIN srv : e # ProjectEndpoint => srv[e].rules = <<>>

\* C5: with only a project-level InheritedProjectLeader rule the merge
\* returns one record whose capabilities are Read, Write and the expansion
\* of the six nested kinds, all Allow except virtualconnection_Write
C5_ProjectLeaderOnlyScenario ==
    pc = "merged" =>
        \A g \in Grantees :
            OnlyProjectTemplateRule(server, g) =>
                /\ Len(merged_permissions) = 1
                /\ merged_permissions[1].grantee_type = g[1]
                /\ merged_permissions[1].grantee_id = g[2]
                /\ DOMAIN merged_permissions[1].capabilities
                       = SeqRange(capability_order.project)
                /\ \A n \in DOMAIN merged_permissions[1].capabilities :
                       merged_permissions[1].capabilities[n] =
                           IF n = "virtualconnection_Write"
                           THEN "No API Endpoint" ELSE "Allow"

\* the scenario was merged
C5_Witness ==
    /\ pc = "merged"
    /\ \E g \in Grantees :
           /\ OnlyProjectTemplateRule(server, g)
           /\ Len(merged_permissions) = 1
           /\ "table_ChangePermissions" \in DOMAIN merged_permissions[1].capabilities

-----------------------------------------------------------------------------
(* C6 *)

AsSet(q) == {q[i] : i \in 1..Len(q)}

\* C6: a call that receives the fetch results of the first call returns the
\* same set of merged records, whatever was merged in between
C6_SameInputSameResult ==
    (pc = "merged" /\ memo.called /\ memo.server = server
        /\ memo.cp = content_permissions)
        => AsSet(merged_permissions) = AsSet(memo.result)

\* the input of the first call was merged again after another project
C6_Witness ==
    /\ pc = "merged"
    /\ memo.called
    /\ memo.others
    /\ memo.server = server
    /\ merged_permissions # <<>>
    /\ AsSet(merged_permissions) = AsSet(memo.result)

-----------------------------------------------------------------------------
(* C7 *)

\* the capability keys that occur in some row of the batch
ObservedCapabilities ==
    {k \in UNION {DOMAIN permissions[i] : i \in 1..Len(permissions)} :
        k \notin SeqRange(fixed_fields)}

CsvColumns == SeqRange(csv_file.capabilities)

\* <<kept name, dropped name>>
DuplicatePairs ==
    {<<"ExtractRefresh", "CreateRefreshMetrics">>,
     <<"VizqlDataApiAccess", "InheritedProjectLeader">>,
     <<"workbook_ExtractRefresh", "workbook_CreateRefreshMetrics">>,
     <<"datasource_ExtractRefresh", "datasource_CreateRefreshMetrics">>,
     <<"datasource_VizqlDataApiAccess", "datasource_InheritedProjectLeader">>}

DroppedAsDuplicate ==
    {p[2] : p \in {q \in DuplicatePairs :
                       q[1] \in ObservedCapabilities /\ q[2] \in ObservedCapabilities}}

-----------------------------------------------------------------------------
(* C8 *)

SynonymPrefixes == {"", "workbook_", "datasource_", "flow_"}

\* C8: CreateRefreshMetrics and ExtractRefresh (also prefixed) are never
\* two columns, and the column is ExtractRefresh when both are in the data
C8_SynonymsAreOneColumn ==
    csv_file.written =>
        \A p \in SynonymPrefixes :
            /\ ~((p \o "ExtractRefresh") \in CsvColumns
                 /\ (p \o "CreateRefreshMetrics") \in CsvColumns)
            /\ ((p \o "ExtractRefresh") \in ObservedCapabilities
                /\ (p \o "CreateRefreshMetrics") \in ObservedCapabilities)
                   => (p \o "ExtractRefresh") \in CsvColumns

-----------------------------------------------------------------------------
(* C9 *)

\* the cell of row i in the column of capability number j
Cell(i, j) == csv_file.rows[i][Len(csv_file.fieldnames) + j]

\* C9: an absent capability is written "No setting", but "No API Endpoint"
\* in the column virtualconnection_Write; a present non-empty mode is
\* written unchanged
C9_CellValues ==
    csv_file.written =>
        \A i \in 1..Len(permissions) : \A j \in 1..Len(csv_file.capabilities) :
            LET cap == csv_file.capabilities[j]
            IN  IF cap \notin DOMAIN permissions[i]
                THEN Cell(i, j) = IF cap = "virtualconnection_Write"
                                  THEN "No API Endpoint" ELSE "No setting"
                ELSE permissions[i][cap] # "" => Cell(i, j) = permissions[i][cap]

\* a file with a virtualconnection_Write column in which one row has the
\* capability and another row lacks it
C9_Witness ==
    /\ csv_file.written
    /\ \E j \in 1..Len(csv_file.capabilities) :
           /\ csv_file.capabilities[j] = "virtualconnection_Write"
           /\ \E i \in 1..Len(permissions) : Cell(i, j) = "No API Endpoint"
           /\ \E i \in 1..Len(permissions) : Cell(i, j) = "Deny"

-----------------------------------------------------------------------------
(* C10 *)

\* C10: when the rows disagree, the detected kind is workbook if a row is a
\* workbook and the content_type of the first row otherwise
C10_FirstSeenKindPreferWorkbook ==
    (csv_file.written /\ Cardinality(content_types_in_data(permissions)) > 1) =>
        csv_file.content_type =
            IF \E i \in 1..Len(permissions) : permissions[i]["content_type"] = "workbook"
            THEN "workbook"
            ELSE permissions[1]["content_type"]

-----------------------------------------------------------------------------
(* C11 *)

\* the position of a name among the explored names in the order of the code
\* points of their characters (upper case before lower case)
NameRank(n) ==
    CASE n = "CreateRefreshMetrics" -> 1
      [] n = "ExtractRefresh" -> 2
      [] n = "InheritedProjectLeader" -> 3
      [] n = "VizqlDataApiAccess" -> 4
      [] n = "virtualconnection_Write" -> 5
      [] n = "workbook_CreateRefreshMetrics" -> 6
      [] n = "workbook_ExtractRefresh" -> 7
      [] OTHER -> 0

\* the predefined order of kind, empty when the catalog has no such kind
CanonicalOrder(kind) ==
    IF kind \in DOMAIN capability_order THEN capability_order[kind] ELSE <<>>

\* the columns are the predefined order of the detected kind followed by
\* exactly the names of extra, in ascending order
ColumnsAreCanonicalThen(extra) ==
    LET canon == CanonicalOrder(csv_file.content_type)
        cols == csv_file.capabilities
        n == Len(canon)
    IN  /\ Len(cols) >= n
        /\ SubSeq(cols, 1, n) = canon
        /\ {cols[j] : j \in (n + 1)..Len(cols)} = extra
        /\ Len(cols) - n = Cardinality(extra)
        /\ \A j \in (n + 1)..(Len(cols) - 1) :
               NameRank(cols[j]) < NameRank(cols[j + 1])

-----------------------------------------------------------------------------
(* C12 *)

\* the identity columns in their fixed relative order
IdentityColumns ==
    <<"content_type", "content_id", "content_name", "workbook_name",
      "project_name", "parent_project_id", "asset_permissions",
      "grantee_type", "grantee_id", "grantee_name">>

\* the position of an identity column in that order
IdentityRank(f) == CHOOSE k \in 1..Len(IdentityColumns) : IdentityColumns[k] = f

\* C12: an identity column is in the header exactly when some row of the
\* batch has the key; the emitted identity columns keep their fixed relative
\* order and come before the capability columns; none of them is a
\* capability column; a row without the key has an empty cell there
C12_IdentityColumns ==
    [][permissions # <<>> =>
        (/\ csv_file.written
         /\ \A f \in SeqRange(IdentityColumns) :
                f \in SeqRange(csv_file.fieldnames)
                    <=> \E i \in 1..Len(permissions) : f \in DOMAIN permissions[i]
         /\ SeqRange(csv_file.fieldnames) \subseteq SeqRange(IdentityColumns)
         /\ \A j \in 1..(Len(csv_file.fieldnames) - 1) :
                IdentityRank(csv_file.fieldnames[j])
                    < IdentityRank(csv_file.fieldnames[j + 1])
         /\ SeqRange(csv_file.capabilities) \cap SeqRange(IdentityColumns) = {}
         /\ Len(csv_file.rows) = Len(permissions)
         /\ \A i \in 1..Len(permissions) : \A j \in 1..Len(csv_file.fieldnames) :
                csv_file.rows[i][j] =
                    IF csv_file.fieldnames[j] \in DOMAIN permissions[i]
                    THEN permissions[i][csv_file.fieldnames[j]]
                    ELSE "")']_vars

\* a file with an identity column that one row has and another row lacks,
\* without the column of an identity key that no row has
C12_Witness ==
    /\ csv_file.written
    /\ \E j \in 1..Len(csv_file.fieldnames) :
           /\ \E i \in 1..Len(permissions) :
                  csv_file.fieldnames[j] \in DOMAIN permissions[i]
           /\ \E i \in 1..Len(permissions) :
                  /\ csv_file.fieldnames[j] \notin DOMAIN permissions[i]
                  /\ csv_file.rows[i][j] = ""
    /\ \E f \in SeqRange(IdentityColumns) : f \notin SeqRange(csv_file.fieldnames)

-----------------------------------------------------------------------------
(* C14 *)

DefaultEndpoints == EndpointSet \ {ProjectEndpoint}

\* srv with every failing default-permission request replaced by a
\* successful request that returns no rule
WithEmptyFetch(srv) ==
    [e \in EndpointSet |->
        IF e \in DefaultEndpoints /\ ~srv[e].ok
        THEN [ok |-> TRUE, rules |-> <<>>]
        ELSE srv[e]]

\* C14: a call raises only when the project-level request fails, never
\* because a default-permission request fails, and it returns what it
\* returns when the failing default-permission request succeeds with no rules
C14_FailedDefaultFetchIsEmpty ==
    /\ pc = "raised" => ~server[ProjectEndpoint].ok
    /\ pc = "merged" => merged_permissions = ResultFor(WithEmptyFetch(server))

\* a call returned rules of another source although the request of a
\* default-permission endpoint that stores a rule failed
C14_Witness ==
    /\ pc = "merged"
    /\ merged_permissions # <<>>
    /\ \E e \in DefaultEndpoints : ~server[e].ok /\ server[e].rules # <<>>

-----------------------------------------------------------------------------
(* C19 *)

\* capability number j of project-level rule number i comes after a template
\* capability of g in the pass over the project-level rules
AfterProjectTemplate(rules, g, i, j) ==
    \E i0 \in 1..i :
        /\ GranteeKey(rules[i0]) = g
        /\ \E j0 \in 1..Len(rules[i0].capabilities) :
               /\ IsTemplateName(rules[i0].capabilities[j0].name, 0)
               /\ i0 < i \/ j0 < j

\* the capabilities of project-level rule number i without the non-template
\* capabilities that come after a template capability of g
CapsKeptOf(rules, g, i) ==
    LET caps == rules[i].capabilities
        Kept == {j \in 1..Len(caps) :
                    IsTemplateName(caps[j].name, 0)
                        \/ ~AfterProjectTemplate(rules, g, i, j)}
        RECURSIVE Pick(_)
        Pick(j) == IF j > Len(caps) THEN <<>>
                   ELSE (IF j \in Kept THEN <<caps[j]>> ELSE <<>>) \o Pick(j + 1)
    IN  Pick(1)

\* srv without the non-template capabilities of g that the pass meets after
\* the first project-level template capability of g: the later ones of the
\* project-level source and all of the default-permission sources
StripAfterProjectTemplate(srv, g) ==
    [StripLater(srv, g, 0) EXCEPT ![ProjectEndpoint].rules =
        [i \in 1..Len(srv[ProjectEndpoint].rules) |->
            IF GranteeKey(srv[ProjectEndpoint].rules[i]) = g
            THEN [srv[ProjectEndpoint].rules[i] EXCEPT !.capabilities =
                     CapsKeptOf(srv[ProjectEndpoint].rules, g, i)]
            ELSE srv[ProjectEndpoint].rules[i]]]

\* C19: a non-template capability of a grantee that the pass meets after a
\* project-level template of the grantee was expanded, in the project-level
\* source or in a default-permission source, adds or changes nothing in the
\* merged record of the grantee
C19_RawAfterTemplateDropped ==
    pc = "merged" =>
        \A g \in Grantees :
            HasTemplateIn(server, g, 0) =>
                SameRecord(merged_permissions,
                           ResultFor(StripAfterProjectTemplate(server, g)), g)

-----------------------------------------------------------------------------
(* C20 *)

\* the key under which source number s stores a non-template capability
StoredKey(s, name) ==
    CASE s = 0 -> name
      [] s = 1 -> "workbook_" \o name
      [] s = 2 -> "datasource_" \o name
      [] s = 3 -> "flow_" \o name
      [] s = 4 -> "virtualconnection_" \o name
      [] s = 5 -> "database_" \o name
      [] s = 6 -> "table_" \o name

\* the pass meets a capability of g stored under key after capability
\* number j of rule number i of source number s
StoredAgainLater(srv, g, key, s, i, j) ==
    \E s2 \in SourceIds : \E i2 \in 1..Len(SourceRules(srv, s2)) :
        /\ GranteeKey(SourceRules(srv, s2)[i2]) = g
        /\ \E j2 \in 1..Len(SourceRules(srv, s2)[i2].capabilities) :
               /\ StoredKey(s2, SourceRules(srv, s2)[i2].capabilities[j2].name) = key
               /\ \/ s2 > s
                  \/ s2 = s /\ i2 > i
                  \/ s2 = s /\ i2 = i /\ j2 > j

\* C20: for a grantee without template, every non-template capability N is
\* in the merged record under the key N when the project-level source gave
\* it and under <kind>_N when the default-permission source of <kind> gave
\* it, with the mode of its rule (of the latest rule when several rules
\* give the same key)
C20_RawCapabilityKeys ==
    pc = "merged" =>
        \A g \in Grantees : NoTemplate(server, g) =>
            \A s \in SourceIds : \A i \in 1..Len(SourceRules(server, s)) :
                GranteeKey(SourceRules(server, s)[i]) = g =>
                    \A j \in 1..Len(SourceRules(server, s)[i].capabilities) :
                        LET cap == SourceRules(server, s)[i].capabilities[j]
                            key == StoredKey(s, cap.name)
                        IN  /\ HasRecordIn(merged_permissions, g)
                            /\ key \in DOMAIN CapsIn(merged_permissions, g)
                            /\ ~StoredAgainLater(server, g, key, s, i, j) =>
                                   CapsIn(merged_permissions, g)[key] = cap.mode

\* a grantee without template has a capability in the project-level source
\* and a capability in a default-permission source, both merged
C20_Witness ==
    /\ pc = "merged"
    /\ \E g \in Grantees :
           /\ NoTemplate(server, g)
           /\ HasRawCapIn(server, g, 0)
           /\ \E s \in 1..Len(NestedKinds) :
                  /\ HasRawCapIn(server, g, s)
                  /\ \E n \in DOMAIN CapsIn(merged_permissions, g) :
                         n = StoredKey(s, "Read")
           /\ "Read" \in DOMAIN CapsIn(merged_permissions, g)

-----------------------------------------------------------------------------
(* Reading an export run *)

ItemsOfKind(k) == selected_items[SelectionKey(k)]

\* the ids of the selected resources of kind k
SelectedIds(k) == {ItemId(k, ItemsOfKind(k)[i]) : i \in 1..Len(ItemsOfKind(k))}

\* the rows of a batch that belong to the resource id
RowsOfResource(rows, id) ==
    LET Mine(row) == row["content_id"] = id IN SelectSeq(rows, Mine)

\* a batch of the kind given to export_permissions_to_csv has a row of id
ExportedIn(kind, id) ==
    \E f \in 1..Len(files) :
        /\ files[f].kind = kind
        /\ \E i \in 1..Len(files[f].permissions) :
               files[f].permissions[i]["content_id"] = id

\* a batch given to export_permissions_to_csv has a row of id
Exported(id) == \E k \in ContentKindSet : ExportedIn(k, id)

Warned(id) == \E i \in 1..Len(warnings) : warnings[i] = id

\* the worker thread has ended and the main loop has run its callbacks
RunEnded == worker \in {"done", "failed"} /\ after_queue = <<>>

-----------------------------------------------------------------------------
(* C13 *)

\* the loop of kind k reaches its resource number i: the loops of workbooks,
\* datasources and flows end at the first failing request
Reached(k, i) ==
    k \in {"workbook", "datasource", "flow"} =>
        \A j \in 1..(i - 1) : FetchOk(k, ItemId(k, ItemsOfKind(k)[j]))

\* rows holds for the resource one row per permission record, in their
\* order, or the placeholder row without capability when there is no record
RowsMatchRecords(rows, k, item) ==
    LET perms == PermissionsOf(k, ItemId(k, item))
        mine == RowsOfResource(rows, ItemId(k, item))
    IN  IF perms = <<>>
        THEN /\ Len(mine) = 1
             /\ mine[1]["grantee_name"] = "No permissions set"
             /\ DOMAIN mine[1] \subseteq SeqRange(fixed_fields)
        ELSE /\ Len(mine) = Len(perms)
             /\ \A j \in 1..Len(perms) :
                    /\ mine[j]["grantee_type"] = perms[j].grantee_type
                    /\ mine[j]["grantee_id"] = perms[j].grantee_id
                    /\ mine[j]["grantee_name"] # "No permissions set"

\* C13: when the block of a content kind has run, the batch of the kind
\* holds, for every selected resource of the kind whose permission request
\* was made and succeeded, one row per permission record returned, or the
\* single row 'No permissions set' without capability when none was returned
C13_OneRowPerRecordOrPlaceholder ==
    [][\A k \in ContentKindSet :
          worker = k =>
              \A i \in 1..Len(ItemsOfKind(k)) :
                  (Reached(k, i) /\ FetchOk(k, ItemId(k, ItemsOfKind(k)[i]))) =>
                      RowsMatchRecords(all_perms'[k], k, ItemsOfKind(k)[i])]_vars

\* the batch of a kind holds the placeholder row of one resource and a row
\* with a capability of another resource
C13_Witness ==
    \E k \in ContentKindSet :
        /\ \E i \in 1..Len(all_perms[k]) :
               all_perms[k][i]["grantee_name"] = "No permissions set"
        /\ \E i \in 1..Len(all_perms[k]) : "Read" \in DOMAIN all_perms[k][i]

-----------------------------------------------------------------------------
(* C15 *)

FailingProjects == {id \in SelectedIds("project") : ~FetchOk("project", id)}

\* every request of the run other than the project-level requests succeeds
OnlyProjectsFail ==
    /\ site.identity = "ok"
    /\ \A k \in ContentKindSet \ {"project"} :
           \A id \in SelectedIds(k) : FetchOk(k, id)

\* C15: at the end of a run in which only project-level requests failed,
\* each failing project has no row in any file and a warning, every other
\* selected resource has rows in the file of its kind, and the completion
\* message was shown
C15_ProjectFailureRecovered ==
    (RunEnded /\ OnlyProjectsFail) =>
        /\ worker = "done"
        /\ message.title = "Complete"
        /\ \A id \in FailingProjects : Warned(id) /\ ~Exported(id)
        /\ \A k \in ContentKindSet :
               \A id \in SelectedIds(k) \ FailingProjects : ExportedIn(k, id)

\* a run with a failing project and another selected resource has ended
C15_Witness ==
    /\ RunEnded
    /\ OnlyProjectsFail
    /\ FailingProjects # {}
    /\ \E k \in ContentKindSet :
           \E id \in SelectedIds(k) \ FailingProjects : ExportedIn(k, id)

-----------------------------------------------------------------------------
(* C16 *)

\* C16: at the end of a run in which get_groups and get_users succeeded,
\* whatever the kind of the resources whose permission request failed, each
\* of them was skipped with a warning, every other selected resource has
\* rows in the file of its kind and the completion message was shown
C16_EveryKindRecovered ==
    (RunEnded /\ site.identity = "ok") =>
        /\ worker = "done"
        /\ message.title = "Complete"
        /\ \A k \in ContentKindSet : \A id \in SelectedIds(k) :
               IF FetchOk(k, id)
               THEN ExportedIn(k, id)
               ELSE Warned(id) /\ ~Exported(id)

-----------------------------------------------------------------------------
(* C17 *)

\* C17: in a run in which get_groups or get_users fails, no file is ever
\* written, and the run ends with the error message
C17_IdentityFailureAborts ==
    site.identity # "ok" =>
        /\ files = <<>>
        /\ ~csv_file.written
        /\ total_files = 0
        /\ worker \in {"idle", "identity", "failed"}
        /\ (worker = "failed" /\ after_queue = <<>>)
               => message.title = "Export Error"

\* a run with a selection ended because get_groups or get_users failed
C17_Witness ==
    /\ site.identity # "ok"
    /\ worker = "failed"
    /\ \E k \in ContentKindSet : SelectedIds(k) # {}
    /\ message.title = "Export Error"

-----------------------------------------------------------------------------
(* C18 *)

\* C18: every batch given to export_permissions_to_csv is non-empty, all its
\* rows have the content_type of the file it is written to, and no kind is
\* written twice in a run
C18_BatchesHomogeneous ==
    /\ \A f \in 1..Len(files) :
           /\ files[f].permissions # <<>>
           /\ \A i \in 1..Len(files[f].permissions) :
                  files[f].permissions[i]["content_type"] = files[f].kind
    /\ \A f, g \in 1..Len(files) : files[f].kind = files[g].kind => f = g
    /\ files # <<>> =>
           /\ permissions = files[Len(files)].permissions
           /\ csv_file.written
           /\ csv_file.content_type = files[Len(files)].kind

\* a run wrote the files of two kinds
C18_Witness ==
    /\ Len(files) = 2
    /\ files[1].kind # files[2].kind
    /\ worker = "done"

-----------------------------------------------------------------------------
(* C21 *)

\* the grantees that occur in a rule of a merged source
GranteesOfSources(srv) ==
    {g \in Grantees : \E s \in SourceIds : OccursIn(srv, g, s)}

\* C21: the result has one record for each grantee that occurs in a rule of
\* a merged source and no other record, no grantee having two records; it
\* is empty when no source has a rule
C21_OneRecordPerGrantee ==
    pc = "merged" =>
        /\ {<<merged_permissions[i].grantee_type, merged_permissions[i].grantee_id>> :
                i \in 1..Len(merged_permissions)} = GranteesOfSources(server)
        /\ Len(merged_permissions) = Cardinality(GranteesOfSources(server))
        /\ \A i, j \in 1..Len(merged_permissions) :
               (/\ merged_permissions[i].grantee_type = merged_permissions[j].grantee_type
                /\ merged_permissions[i].grantee_id = merged_permissions[j].grantee_id)
                   => i = j

\* a grantee that occurs in two rules has a record and the other grantee,
\* which occurs in no rule, has none
C21_Witness ==
    /\ pc = "merged"
    /\ Len(merged_permissions) = 1
    /\ \E g \in Grantees :
           /\ HasRecordIn(merged_permissions, g)
           /\ Cardinality({s \in SourceIds : OccursIn(server, g, s)}) = 2

-----------------------------------------------------------------------------
(* C22 *)

C22_Paths == <<"virtualconnections", "lenses", "virtual-connections">>

C22_Order ==
    <<"project", "workbook", "datasource", "flow", "virtualconnection",
      "database", "table">>

\* what the request of endpoint e delivers: a failing request counts as empty
C22_Answer(srv, e) == IF srv[e].ok THEN srv[e].rules ELSE <<>>

\* the numbers of the paths that return a non-empty list
C22_NonEmptyPaths(srv) ==
    {i \in 1..Len(C22_Paths) : C22_Answer(srv, C22_Paths[i]) # <<>>}

\* the number of the last path requested
C22_LastPath(srv) ==
    IF C22_NonEmptyPaths(srv) = {} THEN Len(C22_Paths)
    ELSE CHOOSE i \in C22_NonEmptyPaths(srv) :
             \A j \in C22_NonEmptyPaths(srv) : i <= j

\* the rule list of the source number n of C22_Order
C22_Source(srv, n) ==
    CASE C22_Order[n] = "project" -> srv["project"].rules
      [] C22_Order[n] = "workbook" -> C22_Answer(srv, "workbooks")
      [] C22_Order[n] = "datasource" -> C22_Answer(srv, "datasources")
      [] C22_Order[n] = "flow" -> C22_Answer(srv, "flows")
      [] C22_Order[n] = "virtualconnection" ->
             C22_Answer(srv, C22_Paths[C22_LastPath(srv)])
      [] C22_Order[n] = "database" -> C22_Answer(srv, "databases")
      [] C22_Order[n] = "table" -> C22_Answer(srv, "tables")

\* the number of the first source of C22_Order in which grantee g occurs
C22_FirstSource(srv, g) ==
    LET In(n) == \E i \in 1..Len(C22_Source(srv, n)) :
                     GranteeKey(C22_Source(srv, n)[i]) = g
    IN  IF \E n \in 1..Len(C22_Order) : In(n)
        THEN CHOOSE n \in 1..Len(C22_Order) :
                 In(n) /\ \A m \in 1..(n - 1) : ~In(m)
        ELSE 0

\* C22: a call that returns requests the virtual-connection paths
\* 'virtualconnections', 'lenses', 'virtual-connections' in this order up to
\* and including the first one that returns a non-empty list (a failing
\* request counts as empty), uses the answer of that path as the
\* virtual-connection source (the empty list when all three are empty), and
\* merges the sources in the order project, workbook, datasource, flow,
\* virtualconnection, database, table
C22_VirtualConnectionFallback ==
    pc = "merged" =>
        LET InPaths(e) == \E i \in 1..Len(C22_Paths) : C22_Paths[i] = e
            Key(i) == <<merged_permissions[i].grantee_type,
                        merged_permissions[i].grantee_id>>
        IN  /\ SelectSeq(requests, InPaths)
                   = SubSeq(C22_Paths, 1, C22_LastPath(server))
            /\ requests = <<"project", "workbooks", "datasources", "flows">>
                           \o SelectSeq(requests, InPaths)
                           \o <<"databases", "tables">>
            /\ DefaultPerms(server, "virtualconnection")
                   = C22_Source(server, 5)
            /\ \A i \in 1..Len(merged_permissions) :
                   C22_FirstSource(server, Key(i)) > 0
            /\ \A i, j \in 1..Len(merged_permissions) :
                   i < j => C22_FirstSource(server, Key(i))
                                <= C22_FirstSource(server, Key(j))

\* the first path failed, the second delivered the source, the third was not
\* requested, and the record of its grantee stands before the record of a
\* grantee of a later source
C22_Witness ==
    /\ pc = "merged"
    /\ ~server["virtualconnections"].ok
    /\ server["lenses"].rules # <<>>
    /\ \A i \in 1..Len(requests) : requests[i] # "virtual-connections"
    /\ Len(merged_permissions) = 2
    /\ \E e \in {"databases", "tables"} : server[e].rules # <<>>

-----------------------------------------------------------------------------
(* C23 *)

C23_Tabs ==
    [workbook |-> "Workbooks", datasource |-> "Data Sources",
     flow |-> "Flows", virtualconnection |-> "Virtual Connections",
     database |-> "Databases", table |-> "Tables", project |-> "Projects"]

\* the namespace of a column name of a project batch, "project" for an
\* un-prefixed name
C23_NamespaceOf(cap) ==
    IF \E kind \in SeqRange(NestedKinds) : cap \in PrefixedNames[kind]
    THEN CHOOSE kind \in SeqRange(NestedKinds) : cap \in PrefixedNames[kind]
    ELSE "project"

\* the api name of a column name of a project batch
C23_ApiNameOf(cap) ==
    IF C23_NamespaceOf(cap) = "project" THEN cap
    ELSE CHOOSE b \in HeaderBaseNames : cap = C23_NamespaceOf(cap) \o "_" \o b

\* the display name of api name api for content kind kind, "" when none
C23_DisplayName(kind, api) ==
    CASE api = "ExportXml" /\ kind = "flow" -> "Download Flow"
      [] api = "ExportXml" /\ kind = "datasource" -> "Download Data Source"
      [] api = "ExportXml" /\ kind \in {"workbook", "view"} -> "Download/Save a Copy"
      [] api = "Write" /\ kind = "project" -> "Publish"
      [] OTHER -> IF api \in DOMAIN api_to_gui_name_common
                  THEN api_to_gui_name_common[api]
                  ELSE ""

\* '<GUI name>(API Endpoints:<api name>)'
C23_Named(gui, api) == gui \o "(API Endpoints:" \o api \o ")"

\* the header the rule gives the column cap of a batch of kind content_type
C23_HeaderIs(content_type, cap, header) ==
    IF content_type = "project"
    THEN LET kind == C23_NamespaceOf(cap)
             api == C23_ApiNameOf(cap)
             gui == C23_DisplayName(kind, api)
         IN  IF gui # ""
             THEN header = C23_Tabs[kind] \o " Tab - " \o C23_Named(gui, api)
             ELSE header = C23_Tabs[kind] \o " Tab - " \o api
    ELSE C23_DisplayName(content_type, cap) # ""
             => header = C23_Named(C23_DisplayName(content_type, cap), cap)

\* C23 as stated: the header of every capability column of a written file is
\* '<GUI name>(API Endpoints:<api name>)' when the api name has a display
\* name, the display name of the content kind going before the common one;
\* in a project batch the header starts with the tab of the namespace of the
\* column and shows the api name without the namespace prefix
C23_HeaderOfEveryColumn ==
    csv_file.written =>
        \A i \in 1..Len(csv_file.capabilities) :
            C23_HeaderIs(csv_file.content_type, csv_file.capabilities[i],
                         csv_file.display_headers[i])

\* C23 amended: the same for every capability column except the column
\* virtualconnection_Write of a project batch, whose header is
\* 'Virtual Connections Tab - Overwrite(API Endpoints:No API Endpoints)'
C23_HeaderOfEveryColumnButVcWrite ==
    csv_file.written =>
        /\ Len(csv_file.display_headers) = Len(csv_file.capabilities)
        /\ \A i \in 1..Len(csv_file.capabilities) :
               IF csv_file.content_type = "project"
                  /\ csv_file.capabilities[i] = "virtualconnection_Write"
               THEN csv_file.display_headers[i] =
                        "Virtual Connections Tab - Overwrite(API Endpoints:No API Endpoints)"
               ELSE C23_HeaderIs(csv_file.content_type,
                                 csv_file.capabilities[i],
                                 csv_file.display_headers[i])

\* a project batch was written with the headers of Write in three namespaces
\* and of ExportXml in two
C23_Witness ==
    /\ csv_file.written
    /\ csv_file.content_type = "project"
    /\ {"Projects Tab - Publish(API Endpoints:Write)",
        "Workbooks Tab - Overwrite(API Endpoints:Write)",
        "Flows Tab - Download Flow(API Endpoints:ExportXml)",
        "Data Sources Tab - Download Data Source(API Endpoints:ExportXml)",
        "Projects Tab - Publish(API Endpoints:InheritedProjectLeader)"}
           \subseteq SeqRange(csv_file.display_headers)

-----------------------------------------------------------------------------
(* C24 *)

\* the capabilities of the record of grantee g before the conversion loop
C24_Before(g) == PreConvertState(server, NoLocals).gp.caps[g]

C24_HasVcKey(caps) == \E cap \in DOMAIN caps : StartsWithVirtualConnection(cap)

\* the record of g lacks virtualconnection_Write and has a virtualconnection_
\* key, or g occurs in a rule of the virtual-connection source that was used
C24_SentinelDue(g) ==
    /\ "virtualconnection_Write" \notin DOMAIN C24_Before(g)
    /\ \/ C24_HasVcKey(C24_Before(g))
       \/ \E i \in 1..Len(DefaultPerms(server, "virtualconnection")) :
              GranteeKey(DefaultPerms(server, "virtualconnection")[i]) = g

\* C24: the conversion adds virtualconnection_Write = 'No API Endpoint' to a
\* record exactly when the record has no virtualconnection_Write entry and
\* either has a key that starts with 'virtualconnection_' or belongs to a
\* grantee of a rule of the virtual-connection source used; it changes
\* nothing else, and the record of a grantee outside that source without a
\* 'virtualconnection_' key has no virtualconnection_Write entry
C24_SentinelExactlyWhenDue ==
    pc = "merged" =>
        \A i \in 1..Len(merged_permissions) :
            LET g == <<merged_permissions[i].grantee_type,
                       merged_permissions[i].grantee_id>>
                after == merged_permissions[i].capabilities
            IN  /\ C24_SentinelDue(g) =>
                       after = DictSet(C24_Before(g), "virtualconnection_Write",
                                       "No API Endpoint")
                /\ ~C24_SentinelDue(g) => after = C24_Before(g)
                /\ (~OccursIn(server, g, 4) /\ ~C24_HasVcKey(C24_Before(g)))
                       => "virtualconnection_Write" \notin DOMAIN after

\* the record of a grantee whose only virtual-connection rule has no
\* capability got the entry, the record of another grantee did not
C24_Witness ==
    /\ pc = "merged"
    /\ \E i, j \in 1..Len(merged_permissions) :
           /\ merged_permissions[i].capabilities
                  = [virtualconnection_Write |-> "No API Endpoint"]
           /\ "virtualconnection_Write"
                  \notin DOMAIN merged_permissions[j].capabilities
           /\ merged_permissions[j].capabilities # EmptyDict
    /\ \E e \in {"lenses", "virtual-connections"} : server[e].rules # <<>>

-----------------------------------------------------------------------------
(* C25 *)

\* the header row of the written file
C25_HeaderRow == csv_file.fieldnames \o csv_file.display_headers

\* C25: in a written file the header row and every data row have as many
\* cells as there are emitted identity columns and capability columns, data
\* row number i is the row of input row number i, no capability name occurs
\* twice among the capability columns, and no file is written for an empty
\* input list
C25_RectangularFile ==
    /\ permissions = <<>> => ~csv_file.written
    /\ csv_file.written =>
        /\ Len(C25_HeaderRow)
               = Len(csv_file.fieldnames) + Len(csv_file.capabilities)
        /\ Len(csv_file.rows) = Len(permissions)
        /\ \A i \in 1..Len(csv_file.rows) :
               /\ Len(csv_file.rows[i]) = Len(C25_HeaderRow)
               /\ \A j \in 1..Len(csv_file.fieldnames) :
                      csv_file.rows[i][j] = Get(permissions[i], csv_file.fieldnames[j])
               /\ \A j \in 1..Len(csv_file.capabilities) :
                      csv_file.capabilities[j] \in DOMAIN permissions[i]
                          => Cell(i, j) = permissions[i][csv_file.capabilities[j]]
        /\ \A j, k \in 1..Len(csv_file.capabilities) :
               csv_file.capabilities[j] = csv_file.capabilities[k] => j = k

\* a file of two different rows, one of which carries a capability of the
\* predefined order of the kind
C25_Witness ==
    /\ csv_file.written
    /\ Len(csv_file.rows) = 2
    /\ csv_file.rows[1] # csv_file.rows[2]
    /\ csv_file.content_type = "workbook"
    /\ \E i \in 1..2 : "ExtractRefresh" \in DOMAIN permissions[i]

-----------------------------------------------------------------------------
(* C26 *)

\* the value of capability cap of input row i stands in row i of the file
\* under a column named cap
C26_Written(i, cap) ==
    \E j \in 1..Len(csv_file.capabilities) :
        /\ csv_file.capabilities[j] = cap
        /\ Cell(i, j) = permissions[i][cap]

\* C26: every capability value of every row of the batch is written under
\* the column of its name, also the InheritedProjectLeader values of a batch
\* in which VizqlDataApiAccess is observed too
C26_EveryValueWritten ==
    csv_file.written =>
        \A i \in 1..Len(permissions) :
            \A cap \in DOMAIN permissions[i] \ SeqRange(fixed_fields) :
                C26_Written(i, cap)

\* the batch whose InheritedProjectLeader value is lost
C26_InheritedProjectLeaderLost ==
    /\ csv_file.written
    /\ {"VizqlDataApiAccess", "InheritedProjectLeader"} \subseteq ObservedCapabilities
    /\ \E i \in 1..Len(permissions) :
           /\ "InheritedProjectLeader" \in DOMAIN permissions[i]
           /\ ~C26_Written(i, "InheritedProjectLeader")

-----------------------------------------------------------------------------
(* C27 *)

\* the number of files the run has written
C27_FilesWritten == Len(files) + (IF group_file.written THEN 1 ELSE 0)

\* the server delivers a member of a group
C27_MembersFound == site.members.ok /\ site.members.users # <<>>

\* C27: when the worker has reached the completion message, total_files is
\* the number of files written in the run, the file of a content kind was
\* written exactly when its batch is not empty, the group membership file
\* was written exactly when it was requested and a member was found, and the
\* completion message shows that number
C27_CountMatchesFiles ==
    /\ worker = "done" =>
           /\ total_files = C27_FilesWritten
           /\ \A k \in ContentKindSet :
                  (\E f \in 1..Len(files) : files[f].kind = k)
                      <=> all_perms[k] # <<>>
           /\ group_file.written <=> (include_group_members /\ C27_MembersFound)
           /\ group_file.written => group_file.rows # <<>>
    /\ (worker = "done" /\ after_queue = <<>>) =>
           /\ message.title = "Complete"
           /\ message.exported = C27_FilesWritten

\* a run ended in which the group membership file was requested but not
\* written, after the file of a content kind was written
C27_Witness ==
    /\ worker = "done"
    /\ after_queue = <<>>
    /\ include_group_members
    /\ ~group_file.written
    /\ Len(files) = 1
    /\ message.exported = 1

-----------------------------------------------------------------------------
(* C29 *)

\* the positions of an export thread that has started and not ended
C29_Running ==
    worker \in {"identity", "project", "workbook", "datasource", "view",
                "flow", "groups"}

C29_NoSelection ==
    \A k \in ContentKindSet : selected_items[SelectionKey(k)] = <<>>

\* at most one export thread runs, and the button is disabled while it does
C29_ButtonGuardsWorker ==
    /\ threads <= 1
    /\ C29_Running <=> threads = 1
    /\ threads = 1 => export_button = "disabled"
    /\ export_button = "normal" => (threads = 0 /\ after_queue = <<>>)

\* a request without selection or without folder starts no thread and
\* leaves the button enabled
C29_RefusedRequest ==
    /\ C29_NoSelection => (threads = 0 /\ worker = "idle")
    /\ (C29_NoSelection \/ folder_path' = "")
           => (threads' = threads /\ worker' = worker
               /\ (folder_path' # folder_path => export_button' = "normal")
               /\ (message' # message /\ message'.title = "Warning"
                       => export_button' = "normal"))

\* C29: at most one export thread runs at any time, the export button is
\* disabled from before the start of the thread until the thread has ended,
\* after the thread has ended (completion or exception) the button is
\* eventually enabled again with the progress indicator stopped, and a
\* request without selection or without chosen folder starts no thread and
\* leaves the button enabled
C29_OneWorkerAtATime ==
    /\ []C29_ButtonGuardsWorker
    /\ [][C29_RefusedRequest]_vars
    /\ (worker \in {"done", "failed"})
           ~> (export_button = "normal" /\ progress # "running")

\* a thread that ended with an exception has left the button enabled and
\* the progress indicator hidden, after a request without folder was refused
C29_Witness ==
    /\ worker = "failed"
    /\ folder_path = "/out"
    /\ export_button = "normal"
    /\ progress = "hidden"
    /\ message.title = "Export Error"
    /\ status_label = ""

-----------------------------------------------------------------------------
(* C28 *)

C28_Session == <<auth_token, site_id, user_id>>

C28_Cleared == <<None, None, None>>

\* what a step of each operation does to the session and to the requests
C28_Step ==
    /\ outcome'.op = "fetch" =>
           IF auth_token = None
           THEN /\ sent' = sent
                /\ outcome'.raised = "Please execute sign_in() first"
           ELSE /\ Len(sent') = Len(sent) + 1
                /\ outcome'.raised # "Please execute sign_in() first"
    /\ \A k \in 1..3 :
           (C28_Session'[k] # C28_Session[k] /\ C28_Session'[k] # None)
               => (outcome'.op = "sign_in" /\ outcome'.raised = "")
    /\ (outcome'.op = "sign_in" /\ outcome'.raised # "")
           => C28_Session' = C28_Session
    /\ outcome'.op = "sign_out" =>
           /\ C28_Session' = C28_Cleared
           /\ auth_token = None => sent' = sent

\* C28: a fetch sends a request only while auth_token is set and raises
\* 'Please execute sign_in() first' otherwise; auth_token, site_id and
\* user_id get a value only in a sign_in that succeeds and are unchanged by
\* a sign_in that fails; after sign_out the three are cleared, also when the
\* sign-out request fails, and no request is sent when not signed in
C28_SessionState ==
    /\ [](auth_token = None => C28_Session = C28_Cleared)
    /\ [](outcome.op = "sign_out" => C28_Session = C28_Cleared)
    /\ [][C28_Step]_vars

\* the session was cleared by a sign_out whose request failed, after a
\* request of a fetch had been sent
C28_Witness ==
    /\ outcome.op = "sign_out"
    /\ C28_Session = C28_Cleared
    /\ Len(sent) = 3
    /\ sent[1].ok
    /\ sent[2].url = "sites/s1"
    /\ sent[3] = [url |-> "auth/signout", ok |-> FALSE]

-----------------------------------------------------------------------------
(* C30 *)

\* the content items the node shows
C30_Shown ==
    LET IsContent(tag) ==
            tag \in UNION {SeqRange(ProjectContent[t]) :
                               t \in DOMAIN ProjectContent}
    IN  SelectSeq(node_children, IsContent)

\* every load thread that was started has delivered its result
C30_AllDelivered ==
    /\ loaders # <<>>
    /\ \A i \in 1..Len(loaders) : loaders[i].pos = "done"

\* C30: when the selection of content types was changed while a load of the
\* expanded project was running and all load threads have delivered their
\* result, the node of the project shows the content of the types selected
\* now
C30_LatestSelectionShown ==
    (raced /\ node_open /\ content_types # {} /\ C30_AllDelivered)
        => C30_Shown = content_items(content_types, 1)

\* the thread of the earlier selection delivered last and the node shows
\* the content of the earlier selection
C30_StaleContentShown ==
    /\ raced
    /\ node_open
    /\ C30_AllDelivered
    /\ Len(loaders) = 2
    /\ loaders[2].selected_types = content_types
    /\ content_types = {"workbook", "datasource"}
    /\ C30_Shown = content_items(loaders[1].selected_types, 1)
    /\ C30_Shown # content_items(content_types, 1)

====
